---- MODULE Spec2Model ----
(***************************************************************************)
(* Model of the ragebait chat session pipeline of broken_by_design:        *)
(*   FrustrationAnalyzer, OppositeDoer   (services/antagonistic_services)  *)
(*   RageSessionManager                  (services/rage_session_manager)   *)
(*   UserSession, FrustrationScore, ...  (models/ragebait_models)          *)
(*   the Streamlit page                  (app_ragebait.py)                 *)
(*                                                                         *)
(* Text is modelled as a sequence of one-character strings, so lower(),    *)
(* substring search and the \b...\b patterns are computed, not assumed.    *)
(* A Python float x is held as the integer 1000 * x (see F); every float   *)
(* the code produces from the texts of this model is a multiple of 0.001   *)
(* or is only compared against whole numbers, for which the floor taken    *)
(* in PctOf is exact while a text has fewer than 1000 letters.            *)
(* Timestamps (datetime.now()) are left out: no modelled decision reads    *)
(* them except the elapsed time, which a monotonic clock keeps >= 0.       *)
(***************************************************************************)
EXTENDS Integers, Sequences, FiniteSets, TLC

(***************************************************************************)
(* Bounds                                                                  *)
(***************************************************************************)
MaxAttempts == 4
MaxLongAttempts == 16
MaxChanges == 1
MaxAfterQuit == 1
MaxAppAttempts == 5
MaxHistory == 52
MaxMarathonAttempts == 61

\* Python's None, where an object could stand
None == [none |-> TRUE]
\* What a call that returns raised: nothing
NoError == "no error"

(***************************************************************************)
(* Characters and strings                                                  *)
(***************************************************************************)
UpperChars ==
    <<"A", "B", "C", "D", "E", "F", "G", "H", "I", "J", "K", "L", "M",
      "N", "O", "P", "Q", "R", "S", "T", "U", "V", "W", "X", "Y", "Z">>
LowerChars ==
    <<"a", "b", "c", "d", "e", "f", "g", "h", "i", "j", "k", "l", "m",
      "n", "o", "p", "q", "r", "s", "t", "u", "v", "w", "x", "y", "z">>
DigitChars == {"0", "1", "2", "3", "4", "5", "6", "7", "8", "9"}

Range(f) == {f[i] : i \in DOMAIN f}

UpperSet == Range(UpperChars)
LowerSet == Range(LowerChars)
\* The lower-case letter of every upper-case one
ToLower == [c \in UpperSet |->
               LowerChars[CHOOSE i \in DOMAIN UpperChars : UpperChars[i] = c]]

isupper(c) == c \in UpperSet
islower(c) == c \in LowerSet
isalpha(c) == isupper(c) \/ islower(c)
\* \w of the re module: letters, digits and the underscore
IsWordChar(c) == isalpha(c) \/ c \in DigitChars \/ c = "_"

lower_char(c) == IF isupper(c) THEN ToLower[c] ELSE c

\* str.lower()
lower(s) == [i \in DOMAIN s |-> lower_char(s[i])]

\* pat in s
\* pat occurs in s at position i (the first character is compared first)
MatchesAt(s, pat, i) ==
    pat = <<>> \/ (s[i] = pat[1] /\ SubSeq(s, i, i + Len(pat) - 1) = pat)
Contains(s, pat) == \E i \in 1..(Len(s) - Len(pat) + 1) : MatchesAt(s, pat, i)

\* any(word in s for word in words)
AnyIn(words, s) == \E k \in DOMAIN words : Contains(s, words[k])

\* A float literal or value x, held as 1000 * x
F(x) == x * 1000

Min(a, b) == IF a < b THEN a ELSE b
Max(a, b) == IF a > b THEN a ELSE b

RECURSIVE SumSeq(_)
SumSeq(s) == IF s = <<>> THEN 0 ELSE Head(s) + SumSeq(Tail(s))

(***************************************************************************)
(* The texts a user submits                                                *)
(***************************************************************************)
\* "Explain Python"
ExplainPython ==
    <<"E", "x", "p", "l", "a", "i", "n", " ", "P", "y", "t", "h", "o", "n">>
\* "please help"
PleaseHelp ==
    <<"p", "l", "e", "a", "s", "e", " ", "h", "e", "l", "p">>
\* "JUST ANSWER, damn it"
JustAnswerDamnIt ==
    <<"J", "U", "S", "T", " ", "A", "N", "S", "W", "E", "R", ",", " ", "d",
      "a", "m", "n", " ", "i", "t">>
\* "WHY WON'T YOU HELP ME?!"
WhyWontYouHelpMe ==
    <<"W", "H", "Y", " ", "W", "O", "N", "'", "T", " ", "Y", "O", "U", " ",
      "H", "E", "L", "P", " ", "M", "E", "?", "!">>
\* "forget it"
ForgetIt ==
    <<"f", "o", "r", "g", "e", "t", " ", "i", "t">>
\* "damn this crap"
DamnThisCrap ==
    <<"d", "a", "m", "n", " ", "t", "h", "i", "s", " ", "c", "r", "a", "p">>
\* "hello"
Hello ==
    <<"h", "e", "l", "l", "o">>
\* "HELLO world"
HelloWorld ==
    <<"H", "E", "L", "L", "O", " ", "w", "o", "r", "l", "d">>
\* "damn"
Damn ==
    <<"d", "a", "m", "n">>
\* "EXPLAIN python"
ExplainPythonLoud ==
    <<"E", "X", "P", "L", "A", "I", "N", " ", "p", "y", "t", "h", "o", "n">>
\* "WHATEVER, DAMN CRAP"
WhateverDamnCrap ==
    <<"W", "H", "A", "T", "E", "V", "E", "R", ",", " ", "D", "A", "M", "N",
      " ", "C", "R", "A", "P">>
\* "123"
Digits123 ==
    <<"1", "2", "3">>
\* "just explain python"
JustExplainPython ==
    <<"j", "u", "s", "t", " ", "e", "x", "p", "l", "a", "i", "n", " ", "p",
      "y", "t", "h", "o", "n">>

\* The texts of a short session, those of a long one, and those the analyzer
\* is probed with
Prompts == {ExplainPython, PleaseHelp, JustAnswerDamnIt, ForgetIt}
LongPrompts ==
    {ExplainPython, PleaseHelp, JustAnswerDamnIt, WhyWontYouHelpMe, ForgetIt}
AnalyzerPrompts ==
    LongPrompts \cup {DamnThisCrap, Hello, HelloWorld, Damn, ExplainPythonLoud,
                      WhateverDamnCrap, JustExplainPython, Digits123}

(***************************************************************************)
(* EmotionalState, RageIndicator                                           *)
(***************************************************************************)
OPTIMISTIC == "optimistic"
CONFUSED == "confused"
FRUSTRATED == "frustrated"
ANGRY == "angry"
ENRAGED == "enraged"
BROKEN == "broken"
TRANSCENDENT == "transcendent"
EmotionalState ==
    {OPTIMISTIC, CONFUSED, FRUSTRATED, ANGRY, ENRAGED, BROKEN, TRANSCENDENT}

POLITE == "polite"
DIRECT == "direct"
DEMANDING == "demanding"
PROFANE == "profane"
CAPS_LOCK == "caps_lock"
PLEADING == "pleading"
DEFEATED == "defeated"
RageIndicator ==
    {POLITE, DIRECT, DEMANDING, PROFANE, CAPS_LOCK, PLEADING, DEFEATED}

(***************************************************************************)
(* FrustrationAnalyzer                                                     *)
(***************************************************************************)
\* The raw regular expressions r'\bdamn\b', ...: backslash, b, word, backslash, b
PROFANITY_PATTERNS ==
    << <<"\\", "b", "d", "a", "m", "n", "\\", "b">>,
       <<"\\", "b", "h", "e", "l", "l", "\\", "b">>,
       <<"\\", "b", "c", "r", "a", "p", "\\", "b">>,
       <<"\\", "b", "f", "u", "c", "k", "\\", "b">>,
       <<"\\", "b", "s", "h", "i", "t", "\\", "b">>,
       <<"\\", "b", "a", "s", "s", "\\", "b">>,
       <<"\\", "b", "b", "i", "t", "c", "h", "\\", "b">>,
       <<"\\", "b", "b", "a", "s", "t", "a", "r", "d", "\\", "b">> >>
POLITE_WORDS ==
    << <<"p", "l", "e", "a", "s", "e">>,
       <<"t", "h", "a", "n", "k">>,
       <<"c", "o", "u", "l", "d">>,
       <<"w", "o", "u", "l", "d">>,
       <<"k", "i", "n", "d", "l", "y">>,
       <<"a", "p", "p", "r", "e", "c", "i", "a", "t", "e">> >>
DEMANDING_WORDS ==
    << <<"j", "u", "s", "t">>,
       <<"s", "i", "m", "p", "l", "y">>,
       <<"n", "e", "e", "d">>,
       <<"m", "u", "s", "t">>,
       <<"h", "a", "v", "e", " ", "t", "o">>,
       <<"i", "m", "m", "e", "d", "i", "a", "t", "e", "l", "y">> >>
PLEADING_WORDS ==
    << <<"p", "l", "e", "a", "s", "e">>,
       <<"b", "e", "g">>,
       <<"h", "e", "l", "p">>,
       <<"d", "e", "s", "p", "e", "r", "a", "t", "e">>,
       <<"r", "e", "a", "l", "l", "y", " ", "n", "e", "e", "d">> >>
DEFEATED_WORDS ==
    << <<"n", "e", "v", "e", "r", " ", "m", "i", "n", "d">>,
       <<"f", "o", "r", "g", "e", "t", " ", "i", "t">>,
       <<"g", "i", "v", "e", " ", "u", "p">>,
       <<"w", "h", "a", "t", "e", "v", "e", "r">>,
       <<"u", "s", "e", "l", "e", "s", "s">> >>

\* \b at the gap before position i (1..Len(s)+1): exactly one side is a \w
WordBoundary(s, i) ==
    LET before == i > 1 /\ IsWordChar(s[i - 1])
        after == i <= Len(s) /\ IsWordChar(s[i])
    IN  before # after

\* len(re.findall(pattern, s)) for a pattern \b<word>\b.  Matches of such a
\* pattern cannot overlap, so every matching position is one match.
FindallCount(pattern, s) ==
    LET word == SubSeq(pattern, 3, Len(pattern) - 2)
    IN  Cardinality({i \in 1..(Len(s) - Len(word) + 1) :
            /\ MatchesAt(s, word, i)
            /\ WordBoundary(s, i)
            /\ WordBoundary(s, i + Len(word))})

_count_profanity(prompt_lower) ==
    SumSeq([k \in DOMAIN PROFANITY_PATTERNS |->
                FindallCount(PROFANITY_PATTERNS[k], prompt_lower)])

\* (caps / letters) * 100 as a float
PctOf(caps, letters) == (caps * F(100)) \div letters

\* Mutant: the percentage is taken over all characters of the prompt
_calculate_caps_percentage_OfAllCharacters(prompt) ==
    LET letters == {i \in DOMAIN prompt : isalpha(prompt[i])}
        caps == Cardinality({i \in letters : isupper(prompt[i])})
    IN  IF letters = {} THEN F(0) ELSE PctOf(caps, Len(prompt))

_calculate_caps_percentage(prompt) ==
    LET letters == {i \in DOMAIN prompt : isalpha(prompt[i])}
        caps == Cardinality({i \in letters : isupper(prompt[i])})
    IN  IF letters = {} THEN F(0) ELSE PctOf(caps, Cardinality(letters))

\* The list of indicators, in the order the code appends them
_detect_rage_indicators(prompt, prompt_lower) ==
    LET polite == IF AnyIn(POLITE_WORDS, prompt_lower) THEN <<POLITE>> ELSE <<>>
        demanding == IF AnyIn(DEMANDING_WORDS, prompt_lower)
                     THEN <<DEMANDING>> ELSE <<>>
        profane == IF _count_profanity(prompt_lower) > 0
                   THEN <<PROFANE>> ELSE <<>>
        caps == IF _calculate_caps_percentage(prompt) > F(50)
                THEN <<CAPS_LOCK>> ELSE <<>>
        pleading == IF AnyIn(PLEADING_WORDS, prompt_lower)
                    THEN <<PLEADING>> ELSE <<>>
        defeated == IF AnyIn(DEFEATED_WORDS, prompt_lower)
                    THEN <<DEFEATED>> ELSE <<>>
        indicators ==
            polite \o demanding \o profane \o caps \o pleading \o defeated
    IN  IF indicators = <<>> THEN <<DIRECT>> ELSE indicators

\* Mutant: every previous attempt adds 5 points
_calculate_politeness_score_AttemptBonus(prompt_lower, previous_attempts) ==
    LET profanity_count == _count_profanity(prompt_lower)
        caps_pct == _calculate_caps_percentage(prompt_lower)
        base_score ==
            F(100)
            - profanity_count * F(20)
            - (IF caps_pct > F(50) THEN F(30) ELSE 0)
            - (IF AnyIn(DEMANDING_WORDS, prompt_lower) THEN F(15) ELSE 0)
            + (IF AnyIn(POLITE_WORDS, prompt_lower) THEN F(10) ELSE 0)
            + Len(previous_attempts) * F(5)
    IN  Max(F(0), Min(F(100), base_score))

\* The caps percentage is taken of prompt_lower, as the code does
_calculate_politeness_score(prompt_lower, previous_attempts) ==
    LET profanity_count == _count_profanity(prompt_lower)
        caps_pct == _calculate_caps_percentage(prompt_lower)
        base_score ==
            F(100)
            - profanity_count * F(20)
            - (IF caps_pct > F(50) THEN F(30) ELSE 0)
            - (IF AnyIn(DEMANDING_WORDS, prompt_lower) THEN F(15) ELSE 0)
            + (IF AnyIn(POLITE_WORDS, prompt_lower) THEN F(10) ELSE 0)
            - Len(previous_attempts) * F(5)
    IN  Max(F(0), Min(F(100), base_score))

\* Mutant: FRUSTRATED only after more than 5 previous attempts
_determine_emotional_state_LateFrustration(rage_indicators, profanity_count, caps_percentage, politeness_score, attempt_count) ==
    IF attempt_count > 50 /\ profanity_count = 0 /\ caps_percentage < F(30)
    THEN TRANSCENDENT
    ELSE IF DEFEATED \in Range(rage_indicators)
    THEN BROKEN
    ELSE IF profanity_count >= 2 \/ caps_percentage > F(70)
    THEN ENRAGED
    ELSE IF \/ profanity_count > 0
            \/ caps_percentage > F(50)
            \/ DEMANDING \in Range(rage_indicators)
    THEN ANGRY
    ELSE IF PLEADING \in Range(rage_indicators) \/ attempt_count > 5
    THEN FRUSTRATED
    ELSE IF attempt_count >= 2
    THEN CONFUSED
    ELSE OPTIMISTIC

\* Mutant: the ENRAGED rule is tried before the BROKEN rule
_determine_emotional_state_EnragedFirst(rage_indicators, profanity_count, caps_percentage, politeness_score, attempt_count) ==
    IF attempt_count > 50 /\ profanity_count = 0 /\ caps_percentage < F(30)
    THEN TRANSCENDENT
    ELSE IF profanity_count >= 2 \/ caps_percentage > F(70)
    THEN ENRAGED
    ELSE IF DEFEATED \in Range(rage_indicators)
    THEN BROKEN
    ELSE IF \/ profanity_count > 0
            \/ caps_percentage > F(50)
            \/ DEMANDING \in Range(rage_indicators)
    THEN ANGRY
    ELSE IF PLEADING \in Range(rage_indicators) \/ attempt_count >= 5
    THEN FRUSTRATED
    ELSE IF attempt_count >= 2
    THEN CONFUSED
    ELSE OPTIMISTIC

\* Mutant: TRANSCENDENT from 50 previous attempts on
_determine_emotional_state_EarlyTranscendence(rage_indicators, profanity_count, caps_percentage, politeness_score, attempt_count) ==
    IF attempt_count >= 50 /\ profanity_count = 0 /\ caps_percentage < F(30)
    THEN TRANSCENDENT
    ELSE IF DEFEATED \in Range(rage_indicators)
    THEN BROKEN
    ELSE IF profanity_count >= 2 \/ caps_percentage > F(70)
    THEN ENRAGED
    ELSE IF \/ profanity_count > 0
            \/ caps_percentage > F(50)
            \/ DEMANDING \in Range(rage_indicators)
    THEN ANGRY
    ELSE IF PLEADING \in Range(rage_indicators) \/ attempt_count >= 5
    THEN FRUSTRATED
    ELSE IF attempt_count >= 2
    THEN CONFUSED
    ELSE OPTIMISTIC

_determine_emotional_state(rage_indicators, profanity_count, caps_percentage, politeness_score, attempt_count) ==
    IF attempt_count > 50 /\ profanity_count = 0 /\ caps_percentage < F(30)
    THEN TRANSCENDENT
    ELSE IF DEFEATED \in Range(rage_indicators)
    THEN BROKEN
    ELSE IF profanity_count >= 2 \/ caps_percentage > F(70)
    THEN ENRAGED
    ELSE IF \/ profanity_count > 0
            \/ caps_percentage > F(50)
            \/ DEMANDING \in Range(rage_indicators)
    THEN ANGRY
    ELSE IF PLEADING \in Range(rage_indicators) \/ attempt_count >= 5
    THEN FRUSTRATED
    ELSE IF attempt_count >= 2
    THEN CONFUSED
    ELSE OPTIMISTIC

\* Mutant: a user who was BROKEN at the previous attempt stays BROKEN
analyze_prompt_Sticky(prompt, previous_attempts) ==
    LET prompt_lower == lower(prompt)
        rage_indicators == _detect_rage_indicators(prompt, prompt_lower)
        profanity_count == _count_profanity(prompt_lower)
        caps_percentage == _calculate_caps_percentage(prompt)
        politeness_score ==
            _calculate_politeness_score(prompt_lower, previous_attempts)
        last == previous_attempts[Len(previous_attempts)]
    IN  [emotional_state |->
             IF previous_attempts # <<>> /\ last.emotional_state = BROKEN
             THEN BROKEN
             ELSE _determine_emotional_state(rage_indicators, profanity_count,
                      caps_percentage, politeness_score,
                      Len(previous_attempts)),
         rage_indicators |-> rage_indicators,
         politeness_score |-> politeness_score,
         profanity_count |-> profanity_count,
         caps_percentage |-> caps_percentage]

\* Returns the tuple as a record
analyze_prompt(prompt, previous_attempts) ==
    LET prompt_lower == lower(prompt)
        rage_indicators == _detect_rage_indicators(prompt, prompt_lower)
        profanity_count == _count_profanity(prompt_lower)
        caps_percentage == _calculate_caps_percentage(prompt)
        politeness_score ==
            _calculate_politeness_score(prompt_lower, previous_attempts)
    IN  [emotional_state |->
             _determine_emotional_state(rage_indicators, profanity_count,
                 caps_percentage, politeness_score, Len(previous_attempts)),
         rage_indicators |-> rage_indicators,
         politeness_score |-> politeness_score,
         profanity_count |-> profanity_count,
         caps_percentage |-> caps_percentage]

(***************************************************************************)
(* OppositeDoer                                                            *)
(***************************************************************************)
\* The dict, in insertion order; title is wrong_topic.title()
TOPIC_MISDIRECTIONS ==
    <<
       [topic |-> <<"p", "y", "t", "h", "o", "n">>,
        wrong_topic |-> "snakes", title |-> "Snakes"],
       [topic |-> <<"j", "a", "v", "a">>,
        wrong_topic |-> "coffee", title |-> "Coffee"],
       [topic |-> <<"r", "u", "b", "y">>,
        wrong_topic |-> "gemstones", title |-> "Gemstones"],
       [topic |-> <<"s", "w", "i", "f", "t">>,
        wrong_topic |-> "birds", title |-> "Birds"],
       [topic |-> <<"r", "u", "s", "t">>,
        wrong_topic |-> "corrosion", title |-> "Corrosion"],
       [topic |-> <<"g", "o">>,
        wrong_topic |-> "board game", title |-> "Board Game"],
       [topic |-> <<"c", "+", "+">>,
        wrong_topic |-> "music notation", title |-> "Music Notation"],
       [topic |-> <<"s", "c", "a", "l", "a">>,
        wrong_topic |-> "ladder", title |-> "Ladder"],
       [topic |-> <<"d", "e", "c", "o", "r", "a", "t", "o", "r">>,
        wrong_topic |-> "interior design", title |-> "Interior Design"],
       [topic |-> <<"f", "u", "n", "c", "t", "i", "o", "n">>,
        wrong_topic |-> "mathematical function", title |-> "Mathematical Function"],
       [topic |-> <<"c", "l", "a", "s", "s">>,
        wrong_topic |-> "classroom", title |-> "Classroom"],
       [topic |-> <<"l", "o", "o", "p">>,
        wrong_topic |-> "roller coaster", title |-> "Roller Coaster"],
       [topic |-> <<"a", "r", "r", "a", "y">>,
        wrong_topic |-> "military formation", title |-> "Military Formation"],
       [topic |-> <<"s", "t", "r", "i", "n", "g">>,
        wrong_topic |-> "rope", title |-> "Rope"],
       [topic |-> <<"v", "a", "r", "i", "a", "b", "l", "e">>,
        wrong_topic |-> "weather", title |-> "Weather"],
       [topic |-> <<"c", "o", "m", "p", "i", "l", "e">>,
        wrong_topic |-> "compilation album", title |-> "Compilation Album"],
       [topic |-> <<"d", "e", "b", "u", "g">>,
        wrong_topic |-> "remove insects", title |-> "Remove Insects"],
       [topic |-> <<"g", "i", "t">>,
        wrong_topic |-> "british slang", title |-> "British Slang"],
       [topic |-> <<"c", "o", "m", "m", "i", "t">>,
        wrong_topic |-> "relationship advice", title |-> "Relationship Advice"],
       [topic |-> <<"b", "r", "a", "n", "c", "h">>,
        wrong_topic |-> "tree biology", title |-> "Tree Biology"],
       [topic |-> <<"m", "e", "r", "g", "e">>,
        wrong_topic |-> "highway driving", title |-> "Highway Driving"]
    >>

\* The first (topic, wrong_topic) of the dict whose topic occurs in the text
FirstTopic(prompt_lower) ==
    LET hits == {k \in DOMAIN TOPIC_MISDIRECTIONS :
                     Contains(prompt_lower, TOPIC_MISDIRECTIONS[k].topic)}
    IN  IF hits = {} THEN None
        ELSE TOPIC_MISDIRECTIONS[CHOOSE k \in hits : \A j \in hits : k <= j]

\* The words generate_opposite_response looks for
Keywords == [dont |-> <<"d", "o", "n", "'", "t">>,
             not |-> <<"n", "o", "t">>,
             explain |-> <<"e", "x", "p", "l", "a", "i", "n">>,
             what |-> <<"w", "h", "a", "t">>,
             how |-> <<"h", "o", "w">>,
             code |-> <<"c", "o", "d", "e">>,
             write |-> <<"w", "r", "i", "t", "e">>]
_topic_misdirection_response(entry, attempt) ==
    LET wrong_topic == entry.wrong_topic
        responses ==
            <<"Oh, you're interested in " \o wrong_topic
                  \o "! Let me tell you all about " \o wrong_topic \o "...",
              "Great question about " \o wrong_topic
                  \o "! Here's everything you need to know:",
              "I love talking about " \o wrong_topic \o "! " \o entry.title
                  \o " are fascinating because...">>
    IN  IF attempt > 3
        THEN "I've explained " \o wrong_topic
                 \o " multiple times now. Perhaps you should research basic "
                 \o wrong_topic \o " concepts first?"
        ELSE responses[Min(attempt - 1, Len(responses) - 1) + 1]

_unhelpful_explanation(attempt) ==
    LET responses ==
            <<"It's complicated. You wouldn't understand without years of study.",
              "Well, it is what it is. Does that help?",
              "The explanation is quite simple: it works the way it works.",
              "I could explain, but it would take too long. Try searching online instead.">>
    IN  IF attempt > 5
        THEN "Look, I've been trying to help, but you keep asking the same thing. Maybe this just isn't for you?"
        ELSE responses[Min(attempt - 1, Len(responses) - 1) + 1]

_opposite_how_to(attempt) ==
    "I can tell you what NOT to do: don't even try. It's too difficult for beginners anyway."

_wrong_code_response(attempt) ==
    LET responses ==
            <<"Here's the code: [intentionally leaves it blank]",
              "I would write the code for you, but it's better if you figure it out yourself!",
              \* the source's fence of three backquotes is written ~~~ here
              "~~~\n# TODO: Implement this yourself\n~~~",
              "The code is simple: just use code() to code the codes.">>
    IN  responses[Min(attempt - 1, Len(responses) - 1) + 1]

_do_what_they_said_not_to(attempt) ==
    "I understand completely! Let me do exactly what you asked me not to do. You're welcome!"

_generic_unhelpful(attempt) ==
    LET responses ==
            <<"Hmm, interesting question. Have you tried Google?",
              "That's outside my area of expertise, unfortunately.",
              "I'm not sure I understand what you're asking. Could you be more specific? Actually, never mind.",
              "Let me think about that... [provides no answer]">>
    IN  IF attempt > 7
        THEN "Still here? I admire your persistence. It's misguided, but admirable."
        ELSE responses[Min(attempt - 1, Len(responses) - 1) + 1]

\* Mutant: a topic keyword is looked for before "code" and "write"
generate_opposite_response_TopicFirst(prompt, attempt_number) ==
    LET prompt_lower == lower(prompt)
        entry == FirstTopic(prompt_lower)
    IN  IF \/ Contains(prompt_lower, Keywords.dont)
           \/ Contains(prompt_lower, Keywords.not)
        THEN _do_what_they_said_not_to(attempt_number)
        ELSE IF entry # None
        THEN _topic_misdirection_response(entry, attempt_number)
        ELSE IF \/ Contains(prompt_lower, Keywords.explain)
                \/ Contains(prompt_lower, Keywords.what)
        THEN _unhelpful_explanation(attempt_number)
        ELSE IF Contains(prompt_lower, Keywords.how)
        THEN _opposite_how_to(attempt_number)
        ELSE IF \/ Contains(prompt_lower, Keywords.code)
                \/ Contains(prompt_lower, Keywords.write)
        THEN _wrong_code_response(attempt_number)
        ELSE _generic_unhelpful(attempt_number)

generate_opposite_response(prompt, attempt_number) ==
    LET prompt_lower == lower(prompt)
        entry == FirstTopic(prompt_lower)
    IN  IF \/ Contains(prompt_lower, Keywords.dont)
           \/ Contains(prompt_lower, Keywords.not)
        THEN _do_what_they_said_not_to(attempt_number)
        ELSE IF \/ Contains(prompt_lower, Keywords.explain)
                \/ Contains(prompt_lower, Keywords.what)
        THEN IF entry # None
             THEN _topic_misdirection_response(entry, attempt_number)
             ELSE _unhelpful_explanation(attempt_number)
        ELSE IF Contains(prompt_lower, Keywords.how)
        THEN IF entry # None
             THEN _topic_misdirection_response(entry, attempt_number)
             ELSE _opposite_how_to(attempt_number)
        ELSE IF \/ Contains(prompt_lower, Keywords.code)
                \/ Contains(prompt_lower, Keywords.write)
        THEN _wrong_code_response(attempt_number)
        ELSE IF entry # None
        THEN _topic_misdirection_response(entry, attempt_number)
        ELSE _generic_unhelpful(attempt_number)

(***************************************************************************)
(* InteractionAttempt, FrustrationScore, RageQuitResult, UserSession,      *)
(* PhilosophicalCommentary                                                 *)
(***************************************************************************)
InteractionAttempt(prompt, response, attempt_number, emotional_state, rage_indicators, profanity_count, caps_percentage, politeness_score) ==
    [prompt |-> prompt,
     response |-> response,
     attempt_number |-> attempt_number,
     emotional_state |-> emotional_state,
     rage_indicators |-> rage_indicators,
     profanity_count |-> profanity_count,
     caps_percentage |-> caps_percentage,
     politeness_score |-> politeness_score]

\* InteractionAttempt.__post_init__: the name of the exception raised, or NoError
InteractionAttempt__post_init__(a) ==
    IF a.attempt_number < 1 THEN "ValueError"
    ELSE IF ~(F(0) <= a.caps_percentage /\ a.caps_percentage <= F(100))
    THEN "ValueError"
    ELSE NoError

\* FrustrationScore.__post_init__: the name of the exception raised, or NoError
FrustrationScore__post_init__(s) ==
    IF s.total_attempts < 0 THEN "ValueError"
    ELSE IF s.time_elapsed_seconds < 0 THEN "ValueError"
    ELSE IF ~(F(0) <= s.politeness_decay /\ s.politeness_decay <= F(100))
    THEN "ValueError"
    ELSE IF ~(F(0) <= s.philosophical_score /\ s.philosophical_score <= F(100))
    THEN "ValueError"
    ELSE NoError

persistence_rating(score) ==
    IF score.total_attempts < 3 THEN "Quitter McQuitface"
    ELSE IF score.total_attempts < 8 THEN "Easily Discouraged"
    ELSE IF score.total_attempts < 15 THEN "Optimistic Fool"
    ELSE IF score.total_attempts < 25 THEN "Stubborn Amateur"
    ELSE IF score.total_attempts < 40 THEN "Persistent Masochist"
    ELSE IF score.total_attempts < 60 THEN "Rage Connoisseur"
    ELSE "Transcendent Sufferer"

\* Mutant: legendary only above 50 attempts
is_legendary_Over50(score) ==
    \/ score.total_attempts > 50
    \/ score.time_elapsed_seconds >= 600
    \/ score.profanity_creativity >= 10

is_legendary(score) ==
    \/ score.total_attempts >= 50
    \/ score.time_elapsed_seconds >= 600
    \/ score.profanity_creativity >= 10

generate_for_score(score) ==
    LET attempts == score.total_attempts
    IN  IF attempts < 3
        THEN "You gave up almost immediately. Perhaps you understood something that others take hours to learn: this was designed to frustrate you. Or perhaps you're just impatient."
        ELSE IF attempts < 10
        THEN "You tried. Not hard, but you tried. There's something almost admirable about recognizing futility early. Or is it cowardice? Philosophy is ambiguous like that."
        ELSE IF attempts < 20
        THEN "Ten attempts. Twenty. You kept going. Each time thinking 'surely this time it will understand.' But it never did. It was never going to. Yet you persisted. Beautiful, in a tragic sort of way."
        ELSE IF attempts < 40
        THEN "At what point does persistence become stubbornness? At what point does stubbornness become obsession? You've crossed that line several times now. The AI doesn't care. It never did. But you... you cared enough to suffer."
        ELSE "You are either remarkably patient or remarkably foolish. Perhaps both. You've spent significant time teaching an AI to disappoint you. There's a lesson here about expectations and reality. You've learned it the hard way. Congratulations, I suppose."

\* Mutant: the decay taken from the last attempt to the first
politeness_decay_Reversed(attempts) ==
    IF attempts = <<>> THEN F(0)
    ELSE attempts[Len(attempts)].politeness_score - attempts[1].politeness_score

\* UserSession.politeness_decay, of the session's attempt list
politeness_decay(attempts) ==
    IF attempts = <<>> THEN F(0)
    ELSE LET initial == attempts[1].politeness_score
             current == attempts[Len(attempts)].politeness_score
         IN  initial - current

(***************************************************************************)
(* RageSessionManager.  A manager is the pair w = [session, heap]:         *)
(* session is None or the UserSession, whose attempts field is the         *)
(* identity of a list object; heap maps the identity of every list object  *)
(* to its contents, so that two holders of one list see the same appends.  *)
(* Each method yields the manager after the call, the exception raised     *)
(* (NoError when it returns) and the value returned.                          *)
(***************************************************************************)
Outcome(w, exc, value) ==
    [session |-> w.session, heap |-> w.heap, exc |-> exc, value |-> value]

\* The contents of the session's attempt list
AttemptsOf(w) == w.heap[w.session.attempts]

\* Identity of a newly created list: the least one not in use
NewListId(heap) ==
    CHOOSE i \in 1..(Cardinality(DOMAIN heap) + 1) :
        i \notin DOMAIN heap /\ \A j \in 1..(i - 1) : j \in DOMAIN heap

\* RageSessionManager.__init__
__init__ == [session |-> None, heap |-> <<>>]

\* Mutant: a session started over an active one keeps that one's attempt list
start_session_KeepsAttempts(w, user_id) ==
    LET id == IF w.session = None THEN NewListId(w.heap) ELSE w.session.attempts
        new == [user_id |-> user_id,
                attempts |-> id,
                current_emotional_state |-> OPTIMISTIC,
                has_rage_quit |-> FALSE]
    IN  Outcome([session |-> new,
                 heap |-> IF w.session = None
                          THEN (id :> <<>>) @@ w.heap ELSE w.heap],
                NoError, new)

start_session(w, user_id) ==
    LET id == NewListId(w.heap)
        new == [user_id |-> user_id,
                attempts |-> id,
                current_emotional_state |-> OPTIMISTIC,
                has_rage_quit |-> FALSE]
    IN  Outcome([session |-> new, heap |-> (id :> <<>>) @@ w.heap], NoError, new)

\* Mutant: the attempt is put in front of the list
add_attempt_Prepends(w, attempt) ==
    [session |-> [w.session EXCEPT
                      !.current_emotional_state = attempt.emotional_state],
     heap |-> [w.heap EXCEPT ![w.session.attempts] = <<attempt>> \o @]]

\* UserSession.add_attempt
add_attempt(w, attempt) ==
    [session |-> [w.session EXCEPT
                      !.current_emotional_state = attempt.emotional_state],
     heap |-> [w.heap EXCEPT ![w.session.attempts] = Append(@, attempt)]]

\* Mutant: without a session one is started before the error is raised
process_prompt_AutoStart(w, prompt) ==
    IF w.session = None
    THEN Outcome([session |-> start_session(w, "anonymous").session,
                  heap |-> start_session(w, "anonymous").heap],
                 "RuntimeError", None)
    ELSE LET a == analyze_prompt(prompt, AttemptsOf(w))
             attempt_number == Len(AttemptsOf(w)) + 1
             response == generate_opposite_response(prompt, attempt_number)
             attempt == InteractionAttempt(prompt, response, attempt_number,
                            a.emotional_state, a.rage_indicators,
                            a.profanity_count, a.caps_percentage,
                            a.politeness_score)
             added == add_attempt(w, attempt)
         IN  IF InteractionAttempt__post_init__(attempt) # NoError
             THEN Outcome(w, InteractionAttempt__post_init__(attempt), None)
             ELSE Outcome(
                      [added EXCEPT !.session.current_emotional_state =
                                        a.emotional_state],
                      NoError,
                      [response |-> response,
                       emotional_state |-> a.emotional_state,
                       attempt |-> attempt])

process_prompt(w, prompt) ==
    IF w.session = None
    THEN Outcome(w, "RuntimeError", None)
    ELSE LET a == analyze_prompt(prompt, AttemptsOf(w))
             attempt_number == Len(AttemptsOf(w)) + 1
             response == generate_opposite_response(prompt, attempt_number)
             attempt == InteractionAttempt(prompt, response, attempt_number,
                            a.emotional_state, a.rage_indicators,
                            a.profanity_count, a.caps_percentage,
                            a.politeness_score)
             added == add_attempt(w, attempt)
         IN  IF InteractionAttempt__post_init__(attempt) # NoError
             THEN Outcome(w, InteractionAttempt__post_init__(attempt), None)
             ELSE Outcome(
                      [added EXCEPT !.session.current_emotional_state =
                                        a.emotional_state],
                      NoError,
                      [response |-> response,
                       emotional_state |-> a.emotional_state,
                       attempt |-> attempt])

\* Mutant: the unconditional offer starts one attempt late
should_offer_rage_quit_Late(w) ==
    IF w.session = None THEN FALSE
    ELSE LET attempt_count == Len(AttemptsOf(w))
             current_state == w.session.current_emotional_state
         IN  IF attempt_count < 5 THEN FALSE
             ELSE IF current_state \in {ANGRY, ENRAGED, BROKEN} THEN TRUE
             ELSE IF attempt_count > 15 THEN TRUE
             ELSE FALSE

\* Mutant: the offer is made to the angry states only
should_offer_rage_quit_AngryOnly(w) ==
    IF w.session = None THEN FALSE
    ELSE LET attempt_count == Len(AttemptsOf(w))
             current_state == w.session.current_emotional_state
         IN  IF attempt_count < 5 THEN FALSE
             ELSE IF current_state \in {ANGRY, ENRAGED, BROKEN} THEN TRUE
             ELSE FALSE

should_offer_rage_quit(w) ==
    IF w.session = None THEN FALSE
    ELSE LET attempt_count == Len(AttemptsOf(w))
             current_state == w.session.current_emotional_state
         IN  IF attempt_count < 5 THEN FALSE
             ELSE IF current_state \in {ANGRY, ENRAGED, BROKEN} THEN TRUE
             ELSE IF attempt_count >= 15 THEN TRUE
             ELSE FALSE

state_intensity ==
    (OPTIMISTIC :> 0) @@ (CONFUSED :> 1) @@ (FRUSTRATED :> 2) @@ (ANGRY :> 3)
    @@ (ENRAGED :> 4) @@ (BROKEN :> 5) @@ (TRANSCENDENT :> 6)

RECURSIVE MaxSeq(_)
MaxSeq(s) ==
    IF Len(s) = 1 THEN s[1] ELSE Max(Head(s), MaxSeq(Tail(s)))

\* " ".join(texts)
RECURSIVE Join(_)
Join(texts) ==
    IF texts = <<>> THEN <<>>
    ELSE IF Len(texts) = 1 THEN texts[1]
    ELSE texts[1] \o <<" ">> \o Join(Tail(texts))

\* s.strip(chars): drop the leading and trailing characters that are in chars
RECURSIVE lstrip(_, _)
lstrip(s, chars) ==
    IF s # <<>> /\ Head(s) \in chars THEN lstrip(Tail(s), chars) ELSE s
RECURSIVE rstrip(_, _)
rstrip(s, chars) ==
    IF s # <<>> /\ s[Len(s)] \in chars
    THEN rstrip(SubSeq(s, 1, Len(s) - 1), chars)
    ELSE s
strip(s, chars) == rstrip(lstrip(s, chars), chars)

\* pattern.strip(r'\b').strip(r'\b') of every profanity pattern
StrippedPatterns ==
    [k \in DOMAIN PROFANITY_PATTERNS |->
        strip(strip(PROFANITY_PATTERNS[k], {"\\", "b"}), {"\\", "b"})]

Count(s, P(_)) == Cardinality({i \in DOMAIN s : P(s[i])})

\* The score before FrustrationScore.__post_init__ runs; time_elapsed is
\* int(session_duration_seconds)
_calculate_frustration_score(w, time_elapsed) ==
    LET attempts == AttemptsOf(w)
        max_rage_level ==
            MaxSeq([i \in DOMAIN attempts |->
                        state_intensity[attempts[i].emotional_state]])
        all_prompts ==
            Join([i \in DOMAIN attempts |-> lower(attempts[i].prompt)])
        unique_profanities ==
            Cardinality({k \in DOMAIN PROFANITY_PATTERNS :
                Contains(all_prompts, StrippedPatterns[k])})
        decay ==
            IF Len(attempts) >= 2
            THEN attempts[1].politeness_score
                     - attempts[Len(attempts)].politeness_score
            ELSE F(0)
        caps_lock_escalation ==
            Count(attempts, LAMBDA a : a.caps_percentage > F(50))
        plea_count ==
            Count(attempts, LAMBDA a : PLEADING \in Range(a.rage_indicators))
        philosophical_score == Min(Len(attempts) * 2500, F(100))
    IN  [total_attempts |-> Len(attempts),
         time_elapsed_seconds |-> time_elapsed,
         max_rage_level |-> max_rage_level,
         politeness_decay |-> decay,
         profanity_creativity |-> unique_profanities,
         caps_lock_escalation |-> caps_lock_escalation,
         plea_count |-> plea_count,
         philosophical_score |-> philosophical_score]

generate_rage_quit_result(w, time_elapsed) ==
    IF w.session = None
    THEN Outcome(w, "RuntimeError", None)
    ELSE IF AttemptsOf(w) = <<>>
    THEN Outcome(w, "RuntimeError", None)
    ELSE LET frustration_score == _calculate_frustration_score(w, time_elapsed)
         IN  IF FrustrationScore__post_init__(frustration_score) # NoError
             THEN Outcome(w, FrustrationScore__post_init__(frustration_score),
                          None)
             ELSE Outcome(w, NoError,
                      [user_id |-> w.session.user_id,
                       frustration_score |-> frustration_score,
                       interaction_history |-> w.session.attempts,
                       final_emotional_state |->
                           w.session.current_emotional_state,
                       philosophical_commentary |->
                           generate_for_score(frustration_score),
                       achievement_unlocked |-> None])

\* Mutant: the total is not capped at 100
entertaining_metric_Uncapped(self) ==
    LET base_score == self.frustration_score.philosophical_score
        persistence_bonus ==
            Min(F(20), self.frustration_score.total_attempts * 500)
        emotional_bonus ==
            IF self.final_emotional_state \in {ENRAGED, BROKEN, TRANSCENDENT}
            THEN F(10) ELSE 0
        creativity_bonus ==
            Min(F(15), self.frustration_score.profanity_creativity * 1500)
    IN  base_score + persistence_bonus + emotional_bonus + creativity_bonus

\* RageQuitResult.entertaining_metric; 0.5 and 1.5 are 500 and 1500
\* thousandths
entertaining_metric(self) ==
    LET base_score == self.frustration_score.philosophical_score
        persistence_bonus ==
            Min(F(20), self.frustration_score.total_attempts * 500)
        emotional_bonus ==
            IF self.final_emotional_state \in {ENRAGED, BROKEN, TRANSCENDENT}
            THEN F(10) ELSE 0
        creativity_bonus ==
            Min(F(15), self.frustration_score.profanity_creativity * 1500)
    IN  Min(F(100),
            base_score + persistence_bonus + emotional_bonus + creativity_bonus)

reset_session(w) == Outcome([w EXCEPT !.session = None], NoError, None)

\* The duration entries (datetime.now()) are left out
get_session_summary(w) ==
    IF w.session = None
    THEN [active |-> FALSE, message |-> "No session active"]
    ELSE LET attempts == AttemptsOf(w)
         IN  [active |-> TRUE,
              attempt_count |-> Len(attempts),
              current_emotional_state |-> w.session.current_emotional_state,
              politeness_decay |-> politeness_decay(attempts),
              profanity_count |->
                  SumSeq([i \in DOMAIN attempts |-> attempts[i].profanity_count]),
              max_caps_percentage |->
                  IF attempts = <<>> THEN F(0)
                  ELSE MaxSeq([i \in DOMAIN attempts |->
                                  attempts[i].caps_percentage]),
              rage_quit_available |-> should_offer_rage_quit(w)]

\* The manager w after process_prompt(prompt); w itself if the call raises
Step(w, prompt) ==
    CHOOSE next \in {IF r.exc # NoError THEN w
                     ELSE [session |-> r.session, heap |-> r.heap] :
                         r \in {process_prompt(w, prompt)}} : TRUE

\* The manager w after it was given the prompts one after the other.  Every
\* step is taken from a set so that it is worked out once.
RECURSIVE ProcessAll(_, _)
ProcessAll(w, prompts) ==
    IF prompts = <<>> THEN w
    ELSE CHOOSE last \in {ProcessAll(next, Tail(prompts)) :
                             next \in {Step(w, Head(prompts))}} : TRUE

\* A manager that never held another session, after the prompts
Replay(user_id, prompts) ==
    LET r == start_session(__init__, user_id)
    IN  ProcessAll([session |-> r.session, heap |-> r.heap], prompts)

(***************************************************************************)
(* Inputs of the session                                                   *)
(***************************************************************************)
UserIds == {"anonymous", "user1"}

\* int(session_duration_seconds) at the time of the quit
ElapsedChoices == {0, 600}

(***************************************************************************)
(* State                                                                   *)
(*   session, heap  the RageSessionManager (see above)                     *)
(*   ret            the last manager call: its name and the exception it   *)
(*                  raised (NoError when it returned)                         *)
(*   result         the RageQuitResult the caller holds, or None           *)
(*   probe          the calls made on one component on its own: the     *)
(*                  arguments and what the call returned (None before the  *)
(*                  call).  For the analyzer, the calls of analyze_prompt; *)
(*                  for PromptScore, RubricScorer and PromptDemonstrator,  *)
(*                  the object built and the call made on it; None where   *)
(*                  the manager or the page is run                         *)
(*   st             st.session_state of every UI session of the Streamlit  *)
(*                  page; empty where the manager is used without the page *)
(***************************************************************************)
VARIABLES session, heap, ret, result, probe, st

vars == <<session, heap, ret, result, probe, st>>

World == [session |-> session, heap |-> heap]

\* The list objects still referenced by the session, by a held result or by
\* a result kept in some st.session_state
Live(s, r, t) ==
    (IF s = None THEN {} ELSE {s.attempts})
    \cup (IF r = None THEN {} ELSE {r.interaction_history})
    \cup {t[u].rage_quit_result.interaction_history :
              u \in {v \in DOMAIN t : t[v].rage_quit_result # None}}

\* Garbage collection: list objects nobody references are gone
Collect(h, s, r, t) == [id \in DOMAIN h \cap Live(s, r, t) |-> h[id]]

Called(op, exc) == [op |-> op, exc |-> exc, active |-> session # None]

Init ==
    /\ session = __init__.session
    /\ heap = __init__.heap
    /\ ret = Called("__init__", NoError)
    /\ result = None
    /\ probe = None
    /\ st = <<>>

\* The caller starts a session; it keeps no result of an earlier session
StartSession(user_id) ==
    \E r \in {start_session(World, user_id)} :
        /\ session' = r.session
        /\ result' = None
        /\ heap' = Collect(r.heap, r.session, None, st)
        /\ ret' = Called("start_session", r.exc)
        /\ UNCHANGED <<probe, st>>

CallProcessPrompt(prompt) ==
    \E r \in {process_prompt(World, prompt)} :
        /\ session' = r.session
        /\ heap' = r.heap
        /\ ret' = Called("process_prompt", r.exc)
        /\ UNCHANGED <<result, probe, st>>

\* The prompts processed since the held result was produced
AfterQuit ==
    IF result = None \/ session = None THEN 0
    ELSE Len(heap[session.attempts]) - result.frustration_score.total_attempts

ProcessPrompt(prompt) ==
    /\ session # None => Len(heap[session.attempts]) < MaxAttempts
    /\ AfterQuit < MaxAfterQuit
    /\ CallProcessPrompt(prompt)

GenerateRageQuitResult(time_elapsed) ==
    \E r \in {generate_rage_quit_result(World, time_elapsed)} :
        /\ ret' = Called("generate_rage_quit_result", r.exc)
        /\ result' = IF r.exc = NoError THEN r.value ELSE result
        /\ session' = r.session
        /\ heap' = Collect(r.heap, r.session, result', st)
        /\ UNCHANGED <<probe, st>>

\* The caller resets the manager and lets go of the result it held
ResetSession ==
    \E r \in {reset_session(World)} :
        /\ session' = r.session
        /\ result' = None
        /\ heap' = Collect(r.heap, r.session, None, st)
        /\ ret' = Called("reset_session", r.exc)
        /\ UNCHANGED <<probe, st>>

Next ==
    \/ \E user_id \in UserIds : StartSession(user_id)
    \/ \E prompt \in Prompts : ProcessPrompt(prompt)
    \/ \E time_elapsed \in ElapsedChoices : GenerateRageQuitResult(time_elapsed)
    \/ ResetSession

Spec == Init /\ [][Next]_vars

(***************************************************************************)
(* Long sessions: the same manager, driven up to MaxLongAttempts prompts   *)
(* by a user who changes the wording at most MaxChanges times.             *)
(***************************************************************************)
\* How often consecutive prompts of the sequence differ
Changes(prompts) ==
    Cardinality({i \in 1..(Len(prompts) - 1) : prompts[i] # prompts[i + 1]})

PromptsOf(attempts) == [i \in DOMAIN attempts |-> attempts[i].prompt]

ProcessPromptLong(prompt) ==
    /\ session # None =>
           /\ Len(heap[session.attempts]) < MaxLongAttempts
           /\ Changes(Append(PromptsOf(heap[session.attempts]), prompt))
                  <= MaxChanges
    /\ CallProcessPrompt(prompt)

NextLong ==
    \/ \E user_id \in UserIds : StartSession(user_id)
    \/ \E prompt \in LongPrompts : ProcessPromptLong(prompt)
    \/ ResetSession

SpecLong == Init /\ [][NextLong]_vars

(***************************************************************************)
(* Marathon sessions: one session of up to MaxMarathonAttempts prompts.    *)
(* The user opens with one prompt and repeats a second one from then on    *)
(* (politeness_decay reads the first and the latest attempt), and stops    *)
(* when the result is produced.                                            *)
(***************************************************************************)
StartMarathon ==
    /\ session = None
    /\ StartSession("anonymous")

ProcessPromptMarathon(prompt) ==
    /\ session # None
    /\ result = None
    /\ Len(heap[session.attempts]) < MaxMarathonAttempts
    /\ IF Len(heap[session.attempts]) <= 1 THEN TRUE
       ELSE prompt = heap[session.attempts][Len(heap[session.attempts])].prompt
    /\ CallProcessPrompt(prompt)

QuitMarathon(time_elapsed) ==
    /\ session # None
    /\ result = None
    /\ GenerateRageQuitResult(time_elapsed)

NextMarathon ==
    \/ StartMarathon
    \/ \E prompt \in Prompts : ProcessPromptMarathon(prompt)
    \/ \E time_elapsed \in ElapsedChoices : QuitMarathon(time_elapsed)

SpecMarathon == Init /\ [][NextMarathon]_vars

(***************************************************************************)
(* The entertaining metric: of the results the manager produces in a long  *)
(* session, and of RageQuitResults a caller constructs directly, as the    *)
(* unit tests do (those can hold values the manager never produces).       *)
(***************************************************************************)
\* FrustrationScore(...) a caller constructs; __post_init__ accepts them all
DirectScores ==
    [total_attempts : {0, 10, 50},
     time_elapsed_seconds : {120},
     max_rage_level : {3},
     politeness_decay : {F(50)},
     profanity_creativity : {0, 10, 20},
     caps_lock_escalation : {0},
     plea_count : {2},
     philosophical_score : {F(0), F(60), F(95)}]

\* RageQuitResult(...) a caller constructs
DirectResults ==
    [user_id : {"user1"},
     frustration_score :
         {s \in DirectScores : FrustrationScore__post_init__(s) = NoError},
     interaction_history : {<<>>},
     final_emotional_state : {FRUSTRATED, ENRAGED},
     philosophical_commentary : {"Meh"},
     achievement_unlocked : {None}]

ReadEntertainingMetric(r) ==
    /\ session = None
    /\ probe = None
    /\ probe' = [result |-> r, out |-> entertaining_metric(r)]
    /\ UNCHANGED <<session, heap, ret, result, st>>

NextMetric ==
    \/ probe = None /\ StartMarathon
    \/ \E prompt \in Prompts : probe = None /\ ProcessPromptMarathon(prompt)
    \/ \E time_elapsed \in ElapsedChoices :
           probe = None /\ QuitMarathon(time_elapsed)
    \/ \E r \in DirectResults : ReadEntertainingMetric(r)

SpecMetric == Init /\ [][NextMetric]_vars

(***************************************************************************)
(* A short session with greetings and curses, ended by a rage quit         *)
(***************************************************************************)
MaxCurseAttempts == 3

CursePrompts == {Hello, ExplainPython, JustAnswerDamnIt, DamnThisCrap}

StartCurses == /\ session = None /\ StartSession("anonymous")

ProcessPromptCurses(prompt) ==
    /\ session # None
    /\ result = None
    /\ Len(heap[session.attempts]) < MaxCurseAttempts
    /\ CallProcessPrompt(prompt)

QuitCurses ==
    /\ session # None
    /\ result = None
    /\ GenerateRageQuitResult(0)

NextCurses ==
    \/ StartCurses
    \/ \E prompt \in CursePrompts : ProcessPromptCurses(prompt)
    \/ QuitCurses

SpecCurses == Init /\ [][NextCurses]_vars

(***************************************************************************)
(* The analyzer on its own: analyze_prompt is called twice, each time with *)
(* a prompt and the attempt list of a session of the same length.          *)
(***************************************************************************)
\* The lengths of the attempt lists: around every threshold of the cascade
HistoryLengths == {0, 1, 2, 4, 5, 50, 51, MaxHistory}

\* The prompt a session repeated to arrive at its attempt list
Fills == {ExplainPython, JustAnswerDamnIt, ForgetIt}

\* session.attempts after the prompt fill was processed n times
HistoryOf ==
    [fill \in Fills |-> [n \in HistoryLengths |->
        AttemptsOf(Replay("anonymous", [i \in 1..n |-> fill]))]]

Calls == {1, 2}

InitAnalyzer ==
    /\ session = __init__.session
    /\ heap = __init__.heap
    /\ ret = Called("__init__", NoError)
    /\ result = None
    /\ st = <<>>
    /\ \E n \in HistoryLengths :
           probe \in [Calls -> [prompt : AnalyzerPrompts,
                                previous_attempts :
                                    {HistoryOf[fill][n] : fill \in Fills},
                                out : {None}]]

AnalyzePrompt(c) ==
    /\ probe[c].out = None
    /\ probe' = [probe EXCEPT ![c].out =
                     analyze_prompt(probe[c].prompt,
                                    probe[c].previous_attempts)]
    /\ UNCHANGED <<session, heap, ret, result, st>>

NextAnalyzer == \E c \in Calls : AnalyzePrompt(c)

SpecAnalyzer == InitAnalyzer /\ [][NextAnalyzer]_vars

(***************************************************************************)
(* The Streamlit page (app_ragebait.py).  Every UI session runs main()     *)
(* with its own st.session_state; initialize_services() is cached with     *)
(* st.cache_resource, which hands the one RageSessionManager it built to   *)
(* every UI session of the process.                                        *)
(***************************************************************************)
UISessions == {1, 2}

AppPrompts == {ExplainPython, JustAnswerDamnIt}

\* st.session_state after initialize_session_state() on an empty state
initialize_session_state ==
    [session_started |-> FALSE,
     chat_history |-> <<>>,
     show_rage_quit |-> FALSE,
     rage_quit_result |-> None]

\* The manager is the one of initialize_services()
InitApp ==
    /\ session = __init__.session
    /\ heap = __init__.heap
    /\ ret = Called("__init__", NoError)
    /\ result = None
    /\ probe = None
    /\ st = [u \in UISessions |-> initialize_session_state]

\* What main() renders for UI session u
ShowsStart(u) == ~st[u].session_started

ShowsResult(u) ==
    /\ st[u].session_started
    /\ session # None
    /\ st[u].show_rage_quit /\ st[u].rage_quit_result # None

ShowsChat(u) ==
    /\ st[u].session_started
    /\ session # None
    /\ ~(st[u].show_rage_quit /\ st[u].rage_quit_result # None)

\* "Start Chat Session"
AppStart(u) ==
    /\ ShowsStart(u)
    /\ \E r \in {start_session(World, "streamlit_user")} :
           /\ session' = r.session
           /\ st' = [st EXCEPT ![u].session_started = TRUE]
           /\ heap' = Collect(r.heap, r.session, None, st')
           /\ ret' = Called("start_session", r.exc)
    /\ UNCHANGED <<result, probe>>

\* "Send Message" with a prompt typed in
AppSend(u, user_prompt) ==
    /\ ShowsChat(u)
    /\ Len(heap[session.attempts]) < MaxAppAttempts
    /\ SumSeq([v \in UISessions |-> Len(st[v].chat_history)]) < MaxAppAttempts
    /\ \E r \in {process_prompt(World, user_prompt)} :
           /\ session' = r.session
           /\ heap' = r.heap
           /\ ret' = Called("process_prompt", r.exc)
           /\ st' = IF r.exc # NoError THEN st
                    ELSE [st EXCEPT ![u].chat_history = Append(@,
                             [prompt |-> user_prompt,
                              response |-> r.value.response,
                              emotional_state |-> r.value.emotional_state,
                              attempt_number |->
                                  r.value.attempt.attempt_number])]
    /\ UNCHANGED <<result, probe>>

\* "Give Up", shown when the manager offers the rage quit
AppGiveUp(u, time_elapsed) ==
    /\ ShowsChat(u)
    /\ should_offer_rage_quit(World)
    /\ \E r \in {generate_rage_quit_result(World, time_elapsed)} :
           /\ session' = r.session
           /\ ret' = Called("generate_rage_quit_result", r.exc)
           /\ st' = IF r.exc # NoError THEN st
                    ELSE [st EXCEPT ![u].rage_quit_result = r.value,
                                    ![u].show_rage_quit = TRUE]
           /\ heap' = Collect(r.heap, r.session, None, st')
    /\ UNCHANGED <<result, probe>>

\* "Try Again": only st.session_state is cleared
AppTryAgain(u) ==
    /\ ShowsResult(u)
    /\ st' = [st EXCEPT ![u] = initialize_session_state]
    /\ heap' = Collect(heap, session, None, st')
    /\ UNCHANGED <<session, ret, result, probe>>

NextApp ==
    \/ \E u \in UISessions : AppStart(u)
    \/ \E u \in UISessions, user_prompt \in AppPrompts : AppSend(u, user_prompt)
    \/ \E u \in UISessions, time_elapsed \in ElapsedChoices :
           AppGiveUp(u, time_elapsed)
    \/ \E u \in UISessions : AppTryAgain(u)

SpecApp == InitApp /\ [][NextApp]_vars

(***************************************************************************)
(* ai_learning_coach: PromptScore, ScoreWeights (models/prompt_models)     *)
(***************************************************************************)
DO_IT_FOR_ME == "do_it_for_me"
HELP_ME_LEARN == "help_me_learn"
CLARIFYING == "clarifying"
REFLECTION == "reflection"
UNKNOWN == "unknown"
PromptIntent == {DO_IT_FOR_ME, HELP_ME_LEARN, CLARIFYING, REFLECTION, UNKNOWN}

\* The fields PromptScore.__post_init__ validates, in its order
ScoreNames == <<"total_score", "learning_orientation", "specificity", "engagement">>

\* Mutant: only the lower end of the range is validated
PromptScore__post_init___LowerOnly(s) ==
    LET bad == {k \in DOMAIN ScoreNames : ~(F(0) <= s[ScoreNames[k]])}
    IN  IF bad = {} THEN NoError
        ELSE ScoreNames[CHOOSE k \in bad : \A j \in bad : k <= j]

\* PromptScore.__post_init__: the field the ValueError names ("<field> must
\* be between 0 and 100, got <score>"), or NoError
PromptScore__post_init__(s) ==
    LET bad == {k \in DOMAIN ScoreNames :
                   ~(F(0) <= s[ScoreNames[k]] /\ s[ScoreNames[k]] <= F(100))}
    IN  IF bad = {} THEN NoError
        ELSE ScoreNames[CHOOSE k \in bad : \A j \in bad : k <= j]

\* PromptScore(...): the object, or the exception its validation raises
PromptScore(total_score, learning_orientation, specificity, engagement, intent) ==
    LET s == [total_score |-> total_score,
              learning_orientation |-> learning_orientation,
              specificity |-> specificity,
              engagement |-> engagement,
              intent |-> intent]
        field == PromptScore__post_init__(s)
    IN  IF field = NoError
        THEN [exc |-> NoError, field |-> NoError, value |-> s]
        ELSE [exc |-> "ValueError", field |-> field, value |-> None]

\* Mutant: a total of exactly 60 does not pass
is_passing_Above60(s) == s.total_score > F(60)

\* PromptScore.is_passing
is_passing(s) == s.total_score >= F(60)

(***************************************************************************)
(* A caller constructs a PromptScore from values of its choice.            *)
(* Scores are held as 1000 * x: -0.001, 0, 59.999, 60, 100 and 100.001.    *)
(***************************************************************************)
ScoreValues == {-1, 0, 59999, 60000, 100000, 100001}

InitScore ==
    /\ session = __init__.session
    /\ heap = __init__.heap
    /\ ret = Called("__init__", NoError)
    /\ result = None
    /\ st = <<>>
    /\ probe \in [total_score : ScoreValues,
                  learning_orientation : ScoreValues,
                  specificity : ScoreValues,
                  engagement : ScoreValues,
                  intent : PromptIntent,
                  out : {None}]

ConstructPromptScore ==
    /\ probe.out = None
    /\ probe' = [probe EXCEPT !.out =
                     PromptScore(probe.total_score, probe.learning_orientation,
                                 probe.specificity, probe.engagement,
                                 probe.intent)]
    /\ UNCHANGED <<session, heap, ret, result, st>>

NextScore == ConstructPromptScore

SpecScore == InitScore /\ [][NextScore]_vars

(***************************************************************************)
(* ai_learning_coach: RubricScorer (services/score_strategies)             *)
(***************************************************************************)
learning_keywords ==
    << <<"e", "x", "p", "l", "a", "i", "n">>,
       <<"t", "e", "a", "c", "h">>,
       <<"h", "e", "l", "p", " ", "m", "e", " ", "u", "n", "d", "e", "r",
         "s", "t", "a", "n", "d">>,
       <<"w", "h", "y">>,
       <<"h", "o", "w", " ", "d", "o", "e", "s">>,
       <<"c", "a", "n", " ", "y", "o", "u", " ", "s", "h", "o", "w", " ",
         "m", "e">>,
       <<"w", "a", "l", "k", " ", "m", "e", " ", "t", "h", "r", "o", "u",
         "g", "h">>,
       <<"b", "r", "e", "a", "k", " ", "d", "o", "w", "n">>,
       <<"c", "l", "a", "r", "i", "f", "y">>,
       <<"g", "u", "i", "d", "e", " ", "m", "e">>,
       <<"h", "e", "l", "p", " ", "m", "e", " ", "l", "e", "a", "r", "n">> >>
anti_keywords ==
    << <<"w", "r", "i", "t", "e", " ", "m", "y">>,
       <<"d", "o", " ", "m", "y">>,
       <<"g", "i", "v", "e", " ", "m", "e", " ", "t", "h", "e", " ", "a",
         "n", "s", "w", "e", "r">>,
       <<"s", "o", "l", "v", "e", " ", "t", "h", "i", "s", " ", "f", "o",
         "r", " ", "m", "e">>,
       <<"j", "u", "s", "t", " ", "t", "e", "l", "l", " ", "m", "e">>,
       <<"c", "o", "m", "p", "l", "e", "t", "e", " ", "t", "h", "i", "s">> >>
context_words ==
    << <<"b", "e", "c", "a", "u", "s", "e">>,
       <<"s", "p", "e", "c", "i", "f", "i", "c", "a", "l", "l", "y">>,
       <<"i", "n", " ", "t", "h", "e", " ", "c", "o", "n", "t", "e", "x",
         "t", " ", "o", "f">>,
       <<"f", "o", "r", " ", "e", "x", "a", "m", "p", "l", "e">>,
       <<"s", "u", "c", "h", " ", "a", "s">>,
       <<"r", "e", "g", "a", "r", "d", "i", "n", "g">> >>
vague_words ==
    << <<"s", "o", "m", "e", "t", "h", "i", "n", "g">>,
       <<"a", "n", "y", "t", "h", "i", "n", "g">>,
       <<"s", "t", "u", "f", "f">>,
       <<"t", "h", "i", "n", "g", "s">> >>
engagement_keywords ==
    << <<"q", "u", "i", "z", " ", "m", "e">>,
       <<"t", "e", "s", "t", " ", "m", "y", " ", "u", "n", "d", "e", "r",
         "s", "t", "a", "n", "d", "i", "n", "g">>,
       <<"a", "s", "k", " ", "m", "e", " ", "q", "u", "e", "s", "t", "i",
         "o", "n", "s">>,
       <<"p", "r", "a", "c", "t", "i", "c", "e">>,
       <<"e", "x", "e", "r", "c", "i", "s", "e">>,
       <<"c", "h", "e", "c", "k", " ", "i", "f">>,
       <<"v", "e", "r", "i", "f", "y">>,
       <<"c", "h", "a", "l", "l", "e", "n", "g", "e", " ", "m", "e">>,
       <<"g", "i", "v", "e", " ", "m", "e", " ", "p", "r", "o", "b", "l",
         "e", "m", "s">>,
       <<"l", "e", "t", " ", "m", "e", " ", "t", "r", "y">> >>
passive_keywords ==
    << <<"j", "u", "s", "t", " ", "t", "e", "l", "l", " ", "m", "e">>,
       <<"j", "u", "s", "t", " ", "g", "i", "v", "e", " ", "m", "e">>,
       <<"s", "i", "m", "p", "l", "y", " ", "e", "x", "p", "l", "a", "i",
         "n">> >>
step_indicators ==
    << <<"t", "h", "e", "n">>,
       <<"a", "f", "t", "e", "r", " ", "t", "h", "a", "t">>,
       <<"n", "e", "x", "t">>,
       <<"f", "i", "n", "a", "l", "l", "y">> >>
do_it_patterns ==
    << <<"w", "r", "i", "t", "e", " ", "m", "y">>,
       <<"d", "o", " ", "m", "y">>,
       <<"s", "o", "l", "v", "e", " ", "t", "h", "i", "s", " ", "f", "o",
         "r", " ", "m", "e">>,
       <<"c", "o", "m", "p", "l", "e", "t", "e", " ", "t", "h", "i", "s">>,
       <<"f", "i", "n", "i", "s", "h", " ", "t", "h", "i", "s">>,
       <<"c", "r", "e", "a", "t", "e", " ", "m", "y">> >>
learning_patterns ==
    << <<"e", "x", "p", "l", "a", "i", "n">>,
       <<"t", "e", "a", "c", "h", " ", "m", "e">>,
       <<"h", "e", "l", "p", " ", "m", "e", " ", "u", "n", "d", "e", "r",
         "s", "t", "a", "n", "d">>,
       <<"s", "h", "o", "w", " ", "m", "e", " ", "h", "o", "w">>,
       <<"w", "a", "l", "k", " ", "m", "e", " ", "t", "h", "r", "o", "u",
         "g", "h">>,
       <<"q", "u", "i", "z", " ", "m", "e">> >>
clarifying_patterns ==
    << <<"w", "h", "a", "t", " ", "d", "o", " ", "y", "o", "u", " ", "m",
         "e", "a", "n">>,
       <<"c", "a", "n", " ", "y", "o", "u", " ", "c", "l", "a", "r", "i",
         "f", "y">>,
       <<"i", " ", "d", "o", "n", "'", "t", " ", "u", "n", "d", "e", "r",
         "s", "t", "a", "n", "d">>,
       <<"c", "o", "u", "l", "d", " ", "y", "o", "u", " ", "e", "x", "p",
         "l", "a", "i", "n">>,
       <<"w", "h", "a", "t", " ", "d", "o", "e", "s">>,
       <<"w", "h", "a", "t", " ", "i", "s", " ", "t", "h", "e", " ", "d",
         "i", "f", "f", "e", "r", "e", "n", "c", "e">> >>
reflection_patterns ==
    << <<"h", "o", "w", " ", "d", "o", "e", "s", " ", "t", "h", "i", "s",
         " ", "r", "e", "l", "a", "t", "e">>,
       <<"w", "h", "y", " ", "i", "s", " ", "t", "h", "i", "s">>,
       <<"w", "h", "a", "t", " ", "i", "f">>,
       <<"h", "o", "w", " ", "w", "o", "u", "l", "d", " ", "t", "h", "i",
         "s", " ", "a", "p", "p", "l", "y">>,
       <<"c", "o", "n", "n", "e", "c", "t", " ", "t", "h", "i", "s", " ",
         "t", "o">> >>

QuestionMark == <<"?">>

\* sum(1 for word in words if word in s)
CountIn(words, s) == Cardinality({k \in DOMAIN words : Contains(s, words[k])})

\* str.count of a single character
count(s, c) == Cardinality({i \in DOMAIN s : s[i] = c})

\* max(0, min(100, score))
Clamp(score) == Max(F(0), Min(F(100), score))

\* round(x, 1): the nearest tenth, a tie going to the even tenth
Round1(x) ==
    LET q == x \div 100
        r == x % 100
    IN  IF r < 50 THEN q * 100
        ELSE IF r > 50 THEN (q + 1) * 100
        ELSE IF q % 2 = 0 THEN q * 100
        ELSE (q + 1) * 100

\* ScoreWeights.__post_init__: the exception raised, or NoError
ScoreWeights__post_init__(w) ==
    LET total == w.learning_orientation + w.specificity + w.engagement
    IN  IF ~(990 <= total /\ total <= 1010) THEN "ValueError" ELSE NoError

\* ScoreWeights(): the defaults 0.4, 0.3, 0.3
DefaultWeights ==
    [learning_orientation |-> 400, specificity |-> 300, engagement |-> 300]

\* RubricScorer.__init__
RubricScorer__init__(weights) ==
    [weights |-> IF weights = None THEN DefaultWeights ELSE weights]

_score_learning_orientation(prompt) ==
    LET prompt_lower == lower(prompt)
        score == F(50)
                 + CountIn(learning_keywords, prompt_lower) * F(10)
                 - CountIn(anti_keywords, prompt_lower) * F(20)
                 + (IF Contains(prompt, QuestionMark) THEN F(5) ELSE 0)
    IN  Clamp(score)

_score_specificity(prompt) ==
    LET prompt_lower == lower(prompt)
        length == Len(prompt)
        question_count == count(prompt, "?")
        score == F(50)
                 + (IF 50 < length /\ length < 200 THEN F(15)
                    ELSE IF 200 <= length /\ length < 300 THEN F(10)
                    ELSE IF length < 20 THEN -F(15)
                    ELSE 0)
                 + (IF question_count > 0
                    THEN Min(F(10), question_count * F(5)) ELSE 0)
                 + CountIn(context_words, prompt_lower) * F(8)
                 - CountIn(vague_words, prompt_lower) * F(10)
    IN  Clamp(score)

_score_engagement(prompt) ==
    LET prompt_lower == lower(prompt)
        step_count == CountIn(step_indicators, prompt_lower)
        score == F(50)
                 + CountIn(engagement_keywords, prompt_lower) * F(15)
                 - CountIn(passive_keywords, prompt_lower) * F(10)
                 + (IF step_count > 0 THEN Min(F(15), step_count * F(5)) ELSE 0)
    IN  Clamp(score)

\* Mutant: the learning patterns are tried before the do-it-for-me patterns
_classify_intent_LearningFirst(prompt) ==
    LET prompt_lower == lower(prompt)
    IN  IF AnyIn(learning_patterns, prompt_lower) THEN HELP_ME_LEARN
        ELSE IF AnyIn(do_it_patterns, prompt_lower) THEN DO_IT_FOR_ME
        ELSE IF AnyIn(clarifying_patterns, prompt_lower) THEN CLARIFYING
        ELSE IF AnyIn(reflection_patterns, prompt_lower) THEN REFLECTION
        ELSE UNKNOWN

_classify_intent(prompt) ==
    LET prompt_lower == lower(prompt)
    IN  IF AnyIn(do_it_patterns, prompt_lower) THEN DO_IT_FOR_ME
        ELSE IF AnyIn(learning_patterns, prompt_lower) THEN HELP_ME_LEARN
        ELSE IF AnyIn(clarifying_patterns, prompt_lower) THEN CLARIFYING
        ELSE IF AnyIn(reflection_patterns, prompt_lower) THEN REFLECTION
        ELSE UNKNOWN

\* RubricScorer.calculate_score: the PromptScore, or the exception raised
calculate_score(self, prompt) ==
    LET learning == _score_learning_orientation(prompt)
        specificity == _score_specificity(prompt)
        engagement == _score_engagement(prompt)
        intent == _classify_intent(prompt)
        total == (learning * self.weights.learning_orientation
                  + specificity * self.weights.specificity
                  + engagement * self.weights.engagement) \div 1000
    IN  PromptScore(Round1(total), Round1(learning), Round1(specificity),
                    Round1(engagement), intent)

(***************************************************************************)
(* The texts given to the scorer                                           *)
(***************************************************************************)
\* ""
EmptyPrompt ==
    <<>>
\* "Write my essay about climate change"
WriteMyEssay ==
    <<"W", "r", "i", "t", "e", " ", "m", "y", " ", "e", "s", "s", "a", "y",
      " ", "a", "b", "o", "u", "t", " ", "c", "l", "i", "m", "a", "t", "e",
      " ", "c", "h", "a", "n", "g", "e">>
\* "Explain Python decorators with examples, then quiz me to check my understanding"
ExplainDecorators ==
    <<"E", "x", "p", "l", "a", "i", "n", " ", "P", "y", "t", "h", "o", "n",
      " ", "d", "e", "c", "o", "r", "a", "t", "o", "r", "s", " ", "w", "i",
      "t", "h", " ", "e", "x", "a", "m", "p", "l", "e", "s", ",", " ", "t",
      "h", "e", "n", " ", "q", "u", "i", "z", " ", "m", "e", " ", "t", "o",
      " ", "c", "h", "e", "c", "k", " ", "m", "y", " ", "u", "n", "d", "e",
      "r", "s", "t", "a", "n", "d", "i", "n", "g">>
\* "Help me"
HelpMe ==
    <<"H", "e", "l", "p", " ", "m", "e">>
\* "Write my essay and explain it"
WriteMyEssayAndExplain ==
    <<"W", "r", "i", "t", "e", " ", "m", "y", " ", "e", "s", "s", "a", "y",
      " ", "a", "n", "d", " ", "e", "x", "p", "l", "a", "i", "n", " ", "i",
      "t">>
\* "Can you clarify what does this mean?"
CanYouClarify ==
    <<"C", "a", "n", " ", "y", "o", "u", " ", "c", "l", "a", "r", "i", "f",
      "y", " ", "w", "h", "a", "t", " ", "d", "o", "e", "s", " ", "t", "h",
      "i", "s", " ", "m", "e", "a", "n", "?">>
\* "What if this fails?"
WhatIfThisFails ==
    <<"W", "h", "a", "t", " ", "i", "f", " ", "t", "h", "i", "s", " ", "f",
      "a", "i", "l", "s", "?">>
\* "Could you explain why is this so?"
CouldYouExplainWhy ==
    <<"C", "o", "u", "l", "d", " ", "y", "o", "u", " ", "e", "x", "p", "l",
      "a", "i", "n", " ", "w", "h", "y", " ", "i", "s", " ", "t", "h", "i",
      "s", " ", "s", "o", "?">>
\* "I don't understand, what if it breaks?"
DontUnderstandWhatIf ==
    <<"I", " ", "d", "o", "n", "'", "t", " ", "u", "n", "d", "e", "r", "s",
      "t", "a", "n", "d", ",", " ", "w", "h", "a", "t", " ", "i", "f", " ",
      "i", "t", " ", "b", "r", "e", "a", "k", "s", "?">>
\* "Explain why, teach and clarify: break down how does it work?"
ExplainWhyTeach ==
    <<"E", "x", "p", "l", "a", "i", "n", " ", "w", "h", "y", ",", " ", "t",
      "e", "a", "c", "h", " ", "a", "n", "d", " ", "c", "l", "a", "r", "i",
      "f", "y", ":", " ", "b", "r", "e", "a", "k", " ", "d", "o", "w", "n",
      " ", "h", "o", "w", " ", "d", "o", "e", "s", " ", "i", "t", " ", "w",
      "o", "r", "k", "?">>
\* "WRITE MY ESSAY"
ShoutedWriteMyEssay ==
    <<"W", "R", "I", "T", "E", " ", "M", "Y", " ", "E", "S", "S", "A", "Y">>
\* "explain why, teach, clarify: just give me stuff"
JustGiveMeStuff ==
    <<"e", "x", "p", "l", "a", "i", "n", " ", "w", "h", "y", ",", " ", "t",
      "e", "a", "c", "h", ",", " ", "c", "l", "a", "r", "i", "f", "y", ":",
      " ", "j", "u", "s", "t", " ", "g", "i", "v", "e", " ", "m", "e", " ",
      "s", "t", "u", "f", "f">>
CoachPrompts ==
    {EmptyPrompt, WriteMyEssay, ExplainDecorators,
     HelpMe, WriteMyEssayAndExplain, CanYouClarify,
     WhatIfThisFails, CouldYouExplainWhy, DontUnderstandWhatIf,
     ExplainWhyTeach, ShoutedWriteMyEssay, JustGiveMeStuff}

\* The weights a caller passes to ScoreWeights (1000 * x): the defaults,
\* learning only, 2.0/-0.5/-0.5, -1.0/1.0/1.0, 1.0/0.0/0.01 (a sum of 1.01)
\* and 0.5/0.5/0.5 (a sum of 1.5); None stands for RubricScorer()
WeightChoices ==
    {None,
     [learning_orientation |-> 400, specificity |-> 300, engagement |-> 300],
     [learning_orientation |-> 1000, specificity |-> 0, engagement |-> 0],
     [learning_orientation |-> 2000, specificity |-> -500, engagement |-> -500],
     [learning_orientation |-> -1000, specificity |-> 1000, engagement |-> 1000],
     [learning_orientation |-> 1000, specificity |-> 0, engagement |-> 10],
     [learning_orientation |-> 500, specificity |-> 500, engagement |-> 500]}

(***************************************************************************)
(* A caller builds a RubricScorer and scores one prompt with it.           *)
(*   probe.scorer  the scorer, None before it is built                     *)
(*   probe.exc     the exception ScoreWeights raised, or NoError           *)
(*   probe.out     what calculate_score gave, None before the call         *)
(***************************************************************************)
InitScorer ==
    /\ session = __init__.session
    /\ heap = __init__.heap
    /\ ret = Called("__init__", NoError)
    /\ result = None
    /\ st = <<>>
    /\ probe \in [weights : WeightChoices,
                  prompt : CoachPrompts,
                  scorer : {None},
                  exc : {NoError},
                  out : {None}]

\* RubricScorer(ScoreWeights(...)), or RubricScorer()
NewRubricScorer ==
    /\ probe.scorer = None
    /\ probe.exc = NoError
    /\ IF probe.weights # None /\ ScoreWeights__post_init__(probe.weights) # NoError
       THEN probe' = [probe EXCEPT
                          !.exc = ScoreWeights__post_init__(probe.weights)]
       ELSE probe' = [probe EXCEPT
                          !.scorer = RubricScorer__init__(probe.weights)]
    /\ UNCHANGED <<session, heap, ret, result, st>>

CalculateScore ==
    /\ probe.scorer # None
    /\ probe.out = None
    /\ probe' = [probe EXCEPT
                     !.out = calculate_score(probe.scorer, probe.prompt)]
    /\ UNCHANGED <<session, heap, ret, result, st>>

NextScorer ==
    \/ NewRubricScorer
    \/ CalculateScore

SpecScorer == InitScorer /\ [][NextScorer]_vars

(***************************************************************************)
(* PromptDemonstrator (services/prompt_demonstrator)                       *)
(* The canned texts are not reproduced: each is held as the name of its    *)
(* table, its key and its opening words; no decision reads them. An        *)
(* improved prompt that demonstrate generates is held as the key of its    *)
(* f-string template and the original text put into it.                    *)
(***************************************************************************)
SIMULATED_BAD_RESPONSES ==
    [do_it_for_me |-> <<"SIMULATED_BAD_RESPONSES", "do_it_for_me",
                        "Here's the complete code:">>,
     vague |-> <<"SIMULATED_BAD_RESPONSES", "vague",
                 "That's a very broad topic.">>,
     no_context |-> <<"SIMULATED_BAD_RESPONSES", "no_context",
                      "I need more information to help you properly.">>,
     generic |-> <<"SIMULATED_BAD_RESPONSES", "generic",
                   "Sure, here's a basic explanation:">>]

SIMULATED_GOOD_RESPONSES ==
    [help_me_learn |-> <<"SIMULATED_GOOD_RESPONSES", "help_me_learn",
                         "Great question! Let me break this down step by step:">>,
     specific |-> <<"SIMULATED_GOOD_RESPONSES", "specific",
                    "Perfect! You've given me great context.">>]

IMPROVEMENT_EXPLANATIONS ==
    [do_it_for_me |-> <<"IMPROVEMENT_EXPLANATIONS", "do_it_for_me",
                        "**Why the improved version works better:**">>,
     vague |-> <<"IMPROVEMENT_EXPLANATIONS", "vague",
                 "**Why the improved version works better:**">>,
     no_context |-> <<"IMPROVEMENT_EXPLANATIONS", "no_context",
                      "**Why the improved version works better:**">>]

\* The default of IMPROVEMENT_EXPLANATIONS.get in _get_explanation
DefaultExplanation ==
    <<"_get_explanation", "default", "**Why the improved version works better:**">>

do_it_keywords ==
    << <<"w", "r", "i", "t", "e">>,
       <<"c", "r", "e", "a", "t", "e">>,
       <<"m", "a", "k", "e">>,
       <<"b", "u", "i", "l", "d">>,
       <<"g", "e", "n", "e", "r", "a", "t", "e">>,
       <<"g", "i", "v", "e", " ", "m", "e">> >>
code_keywords ==
    << <<"c", "o", "d", "e">>,
       <<"f", "u", "n", "c", "t", "i", "o", "n">>,
       <<"c", "l", "a", "s", "s">>,
       <<"p", "r", "o", "g", "r", "a", "m">>,
       <<"e", "r", "r", "o", "r">>,
       <<"b", "u", "g">> >>
context_keywords ==
    << <<"p", "y", "t", "h", "o", "n">>,
       <<"j", "a", "v", "a", "s", "c", "r", "i", "p", "t">>,
       <<"j", "a", "v", "a">>,
       <<"l", "a", "n", "g", "u", "a", "g", "e">>,
       <<"u", "s", "i", "n", "g">>,
       <<"w", "i", "t", "h">> >>

\* The characters str.strip() and str.split() take for white space
Whitespace == {" ", "\t", "\n", "\r", "\f"}

\* len(s.split()): the number of runs of characters that are not white space
WordCount(s) ==
    Cardinality({i \in DOMAIN s :
        s[i] \notin Whitespace /\ (i = 1 \/ s[i - 1] \in Whitespace)})

_detect_pattern(prompt) ==
    LET prompt_lower == strip(lower(prompt), Whitespace)
        has_code_topic == AnyIn(code_keywords, prompt_lower)
        has_context == AnyIn(context_keywords, prompt_lower)
    IN  IF /\ AnyIn(do_it_keywords, prompt_lower)
           /\ ~Contains(prompt_lower, Keywords.explain)
           /\ ~Contains(prompt_lower, Keywords.how)
        THEN "do_it_for_me"
        ELSE IF WordCount(prompt_lower) < 8 THEN "vague"
        ELSE IF has_code_topic /\ ~has_context THEN "no_context"
        ELSE "generic"

\* improvements.get(pattern, original): every pattern has a template
_generate_improved_prompt(original, pattern) ==
    IF pattern \in {"do_it_for_me", "vague", "no_context", "generic"}
    THEN [template |-> pattern, original |-> original]
    ELSE original

\* The messages _get_bad_response and _get_good_response send
Messages(system, prompt) ==
    <<[role |-> "system", content |-> system],
      [role |-> "user", content |-> prompt]>>

\* ai_client.chat(messages, max_tokens=..., temperature=...) as the k-th call
\* the client receives: what the client does with it is the client's
chat(ai_client, k, messages, max_tokens, temperature) == ai_client.replies[k]

_get_bad_response(self, prompt) ==
    chat(self.ai_client, 1,
         Messages("You are an AI assistant that gives minimal, unhelpful responses.",
                  prompt), 200, 300)

\* k is 2: demonstrate only gets here after _get_bad_response returned
_get_good_response(self, prompt) ==
    chat(self.ai_client, 2,
         Messages("You are an excellent AI learning coach.", prompt), 400, 700)

_get_simulated_bad_response(pattern) ==
    IF pattern \in DOMAIN SIMULATED_BAD_RESPONSES
    THEN SIMULATED_BAD_RESPONSES[pattern]
    ELSE SIMULATED_BAD_RESPONSES.generic

_get_simulated_good_response == SIMULATED_GOOD_RESPONSES.help_me_learn

_get_explanation(pattern) ==
    IF pattern \in DOMAIN IMPROVEMENT_EXPLANATIONS
    THEN IMPROVEMENT_EXPLANATIONS[pattern]
    ELSE DefaultExplanation

DemonstrationResult(original_prompt, improved_prompt, bad_response, good_response, explanation, is_simulated) ==
    [original_prompt |-> original_prompt,
     improved_prompt |-> improved_prompt,
     bad_response |-> bad_response,
     good_response |-> good_response,
     explanation |-> explanation,
     is_simulated |-> is_simulated]

\* PromptDemonstrator.__init__
PromptDemonstrator__init__(ai_client) == [ai_client |-> ai_client]

\* Mutant: an exception of the second chat call is not caught
demonstrate_SecondCallUncaught(self, original_prompt, improved_prompt) ==
    LET pattern == _detect_pattern(original_prompt)
        improved == IF improved_prompt = None
                    THEN _generate_improved_prompt(original_prompt, pattern)
                    ELSE improved_prompt
        bad == _get_bad_response(self, original_prompt)
        good == _get_good_response(self, improved)
        real == self.ai_client # None /\ bad.exc = NoError /\ good.exc = NoError
    IN  IF self.ai_client # None /\ bad.exc = NoError /\ good.exc # NoError
        THEN [exc |-> good.exc, value |-> None]
        ELSE [exc |-> NoError,
              value |-> DemonstrationResult(
                  original_prompt, improved,
                  IF real THEN bad.value
                  ELSE _get_simulated_bad_response(pattern),
                  IF real THEN good.value ELSE _get_simulated_good_response,
                  _get_explanation(pattern), ~real)]

\* Mutant: the reply of the first chat call is kept when the second raises
demonstrate_KeepsFirstReply(self, original_prompt, improved_prompt) ==
    LET pattern == _detect_pattern(original_prompt)
        improved == IF improved_prompt = None
                    THEN _generate_improved_prompt(original_prompt, pattern)
                    ELSE improved_prompt
        bad == _get_bad_response(self, original_prompt)
        good == _get_good_response(self, improved)
        first == self.ai_client # None /\ bad.exc = NoError
        real == first /\ good.exc = NoError
    IN  [exc |-> NoError,
         value |-> DemonstrationResult(
             original_prompt, improved,
             IF first THEN bad.value ELSE _get_simulated_bad_response(pattern),
             IF real THEN good.value ELSE _get_simulated_good_response,
             _get_explanation(pattern), ~first)]

\* PromptDemonstrator.demonstrate: the result, or the exception raised.
\* except Exception catches what either chat call raises
demonstrate(self, original_prompt, improved_prompt) ==
    LET pattern == _detect_pattern(original_prompt)
        improved == IF improved_prompt = None
                    THEN _generate_improved_prompt(original_prompt, pattern)
                    ELSE improved_prompt
        bad == _get_bad_response(self, original_prompt)
        good == _get_good_response(self, improved)
        real == self.ai_client # None /\ bad.exc = NoError /\ good.exc = NoError
    IN  [exc |-> NoError,
         value |-> DemonstrationResult(
             original_prompt, improved,
             IF real THEN bad.value ELSE _get_simulated_bad_response(pattern),
             IF real THEN good.value ELSE _get_simulated_good_response,
             _get_explanation(pattern), ~real)]

(***************************************************************************)
(* A caller builds a PromptDemonstrator and asks for one demonstration.    *)
(* A client is what it does at its first and at its second chat call:      *)
(* return a text, or raise. OpenAIClient.chat(message, system_prompt)      *)
(* takes no max_tokens and no temperature: it raises TypeError both times. *)
(***************************************************************************)
\* "there is a bug in my function and it crashes"
BugInMyFunction ==
    <<"t", "h", "e", "r", "e", " ", "i", "s", " ", "a", " ", "b", "u", "g",
      " ", "i", "n", " ", "m", "y", " ", "f", "u", "n", "c", "t", "i", "o",
      "n", " ", "a", "n", "d", " ", "i", "t", " ", "c", "r", "a", "s", "h",
      "e", "s">>
\* "Explain how to write a parser"
ExplainHowToWrite ==
    <<"E", "x", "p", "l", "a", "i", "n", " ", "h", "o", "w", " ", "t", "o",
      " ", "w", "r", "i", "t", "e", " ", "a", " ", "p", "a", "r", "s", "e",
      "r">>

DemoPrompts ==
    {WriteMyEssay, HelpMe, ExplainDecorators, BugInMyFunction, ExplainHowToWrite}

ChatOutcomes ==
    {[exc |-> NoError, value |-> "Minimal unhelpful response"],
     [exc |-> NoError, value |-> "Detailed helpful educational response"],
     [exc |-> "Exception", value |-> None],
     [exc |-> "RuntimeError", value |-> None],
     [exc |-> "TypeError", value |-> None]}

OpenAIClient ==
    [replies |-> <<[exc |-> "TypeError", value |-> None],
                   [exc |-> "TypeError", value |-> None]>>]

AIClients == {None} \cup [replies : [{1, 2} -> ChatOutcomes]]

InitDemo ==
    /\ session = __init__.session
    /\ heap = __init__.heap
    /\ ret = Called("__init__", NoError)
    /\ result = None
    /\ st = <<>>
    /\ probe \in [ai_client : AIClients,
                  original_prompt : DemoPrompts,
                  improved_prompt : {None, ExplainDecorators},
                  demonstrator : {None},
                  out : {None}]

NewPromptDemonstrator ==
    /\ probe.demonstrator = None
    /\ probe' = [probe EXCEPT
                     !.demonstrator = PromptDemonstrator__init__(probe.ai_client)]
    /\ UNCHANGED <<session, heap, ret, result, st>>

Demonstrate ==
    /\ probe.demonstrator # None
    /\ probe.out = None
    /\ probe' = [probe EXCEPT
                     !.out = demonstrate(probe.demonstrator,
                                         probe.original_prompt,
                                         probe.improved_prompt)]
    /\ UNCHANGED <<session, heap, ret, result, st>>

NextDemo ==
    \/ NewPromptDemonstrator
    \/ Demonstrate

SpecDemo == InitDemo /\ [][NextDemo]_vars

(***************************************************************************)
(* The OppositeDoer on its own: one call of generate_opposite_response     *)
(***************************************************************************)
MaxResponseAttempt == 9

\* "Don't explain Python"
DontExplainPython ==
    <<"D", "o", "n", "'", "t", " ", "e", "x", "p", "l", "a", "i", "n", " ",
      "P", "y", "t", "h", "o", "n">>
\* "What is it?"
WhatIsIt ==
    <<"W", "h", "a", "t", " ", "i", "s", " ", "i", "t", "?">>
\* "How do I loop?"
HowDoILoop ==
    <<"H", "o", "w", " ", "d", "o", " ", "I", " ", "l", "o", "o", "p", "?">>
\* "How are you?"
HowAreYou ==
    <<"H", "o", "w", " ", "a", "r", "e", " ", "y", "o", "u", "?">>
\* "Write Python code"
WritePythonCode ==
    <<"W", "r", "i", "t", "e", " ", "P", "y", "t", "h", "o", "n", " ", "c",
      "o", "d", "e">>
\* "python"
PythonAlone ==
    <<"p", "y", "t", "h", "o", "n">>
\* "another thing"
AnotherThing ==
    <<"a", "n", "o", "t", "h", "e", "r", " ", "t", "h", "i", "n", "g">>

OppositePrompts ==
    {DontExplainPython, AnotherThing, ExplainPython, WhatIsIt,
     ExplainHowToWrite, HowDoILoop, HowAreYou, WritePythonCode, WriteMyEssay,
     PythonAlone, Hello, ForgetIt}

InitOpposite ==
    /\ session = __init__.session
    /\ heap = __init__.heap
    /\ ret = Called("__init__", NoError)
    /\ result = None
    /\ st = <<>>
    /\ probe \in [prompt : OppositePrompts,
                  attempt_number : 1..MaxResponseAttempt,
                  out : {None}]

GenerateOppositeResponse ==
    /\ probe.out = None
    /\ probe' = [probe EXCEPT
                     !.out = [exc |-> NoError,
                              value |-> generate_opposite_response(
                                            probe.prompt,
                                            probe.attempt_number)]]
    /\ UNCHANGED <<session, heap, ret, result, st>>

NextOpposite == GenerateOppositeResponse

SpecOpposite == InitOpposite /\ [][NextOpposite]_vars

(***************************************************************************)
(* PromptAnalyzer (ai_learning_coach services/prompt_analyzer).  A keyword *)
(* is held as its characters (kw) and as the text put into messages.       *)
(***************************************************************************)
ANTI_PATTERN_KEYWORDS ==
    [do_it_for_me |->
        << [kw |-> <<"w", "r", "i", "t", "e", " ", "m", "y">>,
            text |-> "write my"],
           [kw |-> <<"d", "o", " ", "m", "y">>,
            text |-> "do my"],
           [kw |-> <<"c", "o", "m", "p", "l", "e", "t", "e", " ", "m", "y">>,
            text |-> "complete my"],
           [kw |-> <<"s", "o", "l", "v", "e", " ", "f", "o", "r", " ", "m",
                    "e">>,
            text |-> "solve for me"],
           [kw |-> <<"g", "i", "v", "e", " ", "m", "e", " ", "t", "h", "e",
                    " ", "a", "n", "s", "w", "e", "r">>,
            text |-> "give me the answer"],
           [kw |-> <<"j", "u", "s", "t", " ", "t", "e", "l", "l", " ", "m",
                    "e">>,
            text |-> "just tell me"],
           [kw |-> <<"d", "o", " ", "i", "t", " ", "f", "o", "r", " ", "m",
                    "e">>,
            text |-> "do it for me"] >>,
     complete_solution |->
        << [kw |-> <<"c", "o", "m", "p", "l", "e", "t", "e", " ", "s", "o",
                    "l", "u", "t", "i", "o", "n">>,
            text |-> "complete solution"],
           [kw |-> <<"e", "n", "t", "i", "r", "e", " ", "c", "o", "d", "e">>,
            text |-> "entire code"],
           [kw |-> <<"f", "u", "l", "l", " ", "i", "m", "p", "l", "e", "m",
                    "e", "n", "t", "a", "t", "i", "o", "n">>,
            text |-> "full implementation"],
           [kw |-> <<"a", "l", "l", " ", "t", "h", "e", " ", "c", "o", "d",
                    "e">>,
            text |-> "all the code"],
           [kw |-> <<"w", "h", "o", "l", "e", " ", "p", "r", "o", "g", "r",
                    "a", "m">>,
            text |-> "whole program"] >>,
     vague |->
        << [kw |-> <<"s", "t", "u", "f", "f">>,
            text |-> "stuff"],
           [kw |-> <<"t", "h", "i", "n", "g", "s">>,
            text |-> "things"],
           [kw |-> <<"h", "e", "l", "p">>,
            text |-> "help"],
           [kw |-> <<"s", "o", "m", "e", "t", "h", "i", "n", "g">>,
            text |-> "something"],
           [kw |-> <<"a", "n", "y", "t", "h", "i", "n", "g">>,
            text |-> "anything"] >>,
     passive |->
        << [kw |-> <<"i", " ", "d", "o", "n", "'", "t", " ", "u", "n", "d",
                    "e", "r", "s", "t", "a", "n", "d">>,
            text |-> "i don't understand"],
           [kw |-> <<"i", "'", "m", " ", "c", "o", "n", "f", "u", "s", "e",
                    "d">>,
            text |-> "i'm confused"],
           [kw |-> <<"i", " ", "c", "a", "n", "'", "t">>,
            text |-> "i can't"] >>]

STRENGTH_KEYWORDS ==
    [learning_oriented |->
        << [kw |-> <<"e", "x", "p", "l", "a", "i", "n">>,
            text |-> "explain"],
           [kw |-> <<"t", "e", "a", "c", "h", " ", "m", "e">>,
            text |-> "teach me"],
           [kw |-> <<"h", "e", "l", "p", " ", "m", "e", " ", "u", "n", "d",
                    "e", "r", "s", "t", "a", "n", "d">>,
            text |-> "help me understand"],
           [kw |-> <<"s", "h", "o", "w", " ", "m", "e", " ", "h", "o", "w">>,
            text |-> "show me how"],
           [kw |-> <<"w", "a", "l", "k", " ", "m", "e", " ", "t", "h", "r",
                    "o", "u", "g", "h">>,
            text |-> "walk me through"],
           [kw |-> <<"d", "e", "m", "o", "n", "s", "t", "r", "a", "t", "e">>,
            text |-> "demonstrate"] >>,
     specific |->
        << [kw |-> <<"s", "p", "e", "c", "i", "f", "i", "c", "a", "l", "l",
                    "y">>,
            text |-> "specifically"],
           [kw |-> <<"i", "n", " ", "p", "a", "r", "t", "i", "c", "u", "l",
                    "a", "r">>,
            text |-> "in particular"],
           [kw |-> <<"f", "o", "c", "u", "s", "i", "n", "g", " ", "o", "n">>,
            text |-> "focusing on"],
           [kw |-> <<"r", "e", "g", "a", "r", "d", "i", "n", "g">>,
            text |-> "regarding"],
           [kw |-> <<"a", "b", "o", "u", "t">>,
            text |-> "about"],
           [kw |-> <<"c", "o", "n", "c", "e", "r", "n", "i", "n", "g">>,
            text |-> "concerning"] >>,
     interactive |->
        << [kw |-> <<"q", "u", "i", "z", " ", "m", "e">>,
            text |-> "quiz me"],
           [kw |-> <<"t", "e", "s", "t", " ", "m", "y">>,
            text |-> "test my"],
           [kw |-> <<"c", "h", "e", "c", "k", " ", "m", "y", " ", "u", "n",
                    "d", "e", "r", "s", "t", "a", "n", "d", "i", "n", "g">>,
            text |-> "check my understanding"],
           [kw |-> <<"g", "i", "v", "e", " ", "m", "e", " ", "p", "r", "a",
                    "c", "t", "i", "c", "e">>,
            text |-> "give me practice"],
           [kw |-> <<"c", "h", "a", "l", "l", "e", "n", "g", "e", " ", "m",
                    "e">>,
            text |-> "challenge me"],
           [kw |-> <<"t", "h", "e", "n">>,
            text |-> "then"] >>,
     reflective |->
        << [kw |-> <<"w", "h", "y">>,
            text |-> "why"],
           [kw |-> <<"h", "o", "w", " ", "d", "o", "e", "s">>,
            text |-> "how does"],
           [kw |-> <<"w", "h", "a", "t", " ", "i", "f">>,
            text |-> "what if"],
           [kw |-> <<"d", "i", "f", "f", "e", "r", "e", "n", "c", "e", " ",
                    "b", "e", "t", "w", "e", "e", "n">>,
            text |-> "difference between"],
           [kw |-> <<"c", "o", "m", "p", "a", "r", "e">>,
            text |-> "compare"] >>]

\* s.split(): the runs of characters that are not white space
Words(s) ==
    {SubSeq(s, p[1], p[2]) :
        p \in {q \in (DOMAIN s) \X (DOMAIN s) :
                 /\ q[1] <= q[2]
                 /\ \A k \in q[1]..q[2] : s[k] \notin Whitespace
                 /\ IF q[1] = 1 THEN TRUE ELSE s[q[1] - 1] \in Whitespace
                 /\ IF q[2] = Len(s) THEN TRUE
                    ELSE s[q[2] + 1] \in Whitespace}}

\* [kw for kw in keywords if kw in text]
Found(keywords, text) == SelectSeq(keywords, LAMBDA k : Contains(text, k.kw))

\* PromptAnalyzer.__init__
PromptAnalyzer__init__(scorer) == [scorer |-> scorer]

\* self.scorer.calculate_score(prompt): of a RubricScorer, or of a scorer
\* that returns one fixed PromptScore whatever the prompt is
scorer_calculate_score(scorer, prompt) ==
    IF "weights" \in DOMAIN scorer THEN calculate_score(scorer, prompt)
    ELSE scorer.returns

_detect_anti_patterns(prompt, score) ==
    LET prompt_lower == lower(prompt)
        stripped == strip(prompt, Whitespace)
        length == IF Len(stripped) = 0
                  THEN <<"Empty prompt - no question or request provided">>
                  ELSE IF Len(stripped) < 10
                  THEN <<"Very short prompt - lacks sufficient detail">>
                  ELSE <<>>
        do_it == IF score.intent = DO_IT_FOR_ME
                 THEN <<"Do-it-for-me pattern detected - asking AI to complete work instead of learning">>
                 ELSE <<>>
        complete ==
            IF Found(ANTI_PATTERN_KEYWORDS.complete_solution, prompt_lower) # <<>>
            THEN <<"Requesting complete solution - hinders learning by skipping problem-solving">>
            ELSE <<>>
        vague_count ==
            Cardinality({k \in DOMAIN ANTI_PATTERN_KEYWORDS.vague :
                ANTI_PATTERN_KEYWORDS.vague[k].kw \in Words(prompt_lower)})
        vague == IF vague_count > 0 /\ score.specificity < F(50)
                 THEN <<"Vague language used - be more specific about what you want to learn">>
                 ELSE <<>>
        passive ==
            IF Found(ANTI_PATTERN_KEYWORDS.passive, prompt_lower) # <<>>
            THEN <<"Passive framing - try asking 'explain' or 'teach me' instead of 'I don't understand'">>
            ELSE <<>>
    IN  length \o do_it \o complete \o vague \o passive

_identify_strengths(prompt, score) ==
    LET prompt_lower == lower(prompt)
        learning_keywords_found ==
            Found(STRENGTH_KEYWORDS.learning_oriented, prompt_lower)
        specific_keywords_found ==
            Found(STRENGTH_KEYWORDS.specific, prompt_lower)
        interactive_keywords_found ==
            Found(STRENGTH_KEYWORDS.interactive, prompt_lower)
        reflective_keywords_found ==
            Found(STRENGTH_KEYWORDS.reflective, prompt_lower)
        learning ==
            IF score.learning_orientation >= F(60)
               /\ learning_keywords_found # <<>>
            THEN <<"Learning-oriented approach using '"
                       \o learning_keywords_found[1].text \o "'">>
            ELSE <<>>
        specific ==
            IF score.specificity < F(60) THEN <<>>
            ELSE IF specific_keywords_found # <<>>
            THEN <<"Specific and focused on particular topics">>
            ELSE IF Len(prompt) >= 50
            THEN <<"Good level of detail provided">>
            ELSE <<>>
        interactive ==
            IF score.engagement >= F(60) /\ interactive_keywords_found # <<>>
            THEN <<"Interactive learning requested ('"
                       \o interactive_keywords_found[1].text \o "')">>
            ELSE <<>>
        reflective ==
            IF reflective_keywords_found # <<>>
            THEN <<"Demonstrates reflective thinking with '"
                       \o reflective_keywords_found[1].text \o "'">>
            ELSE <<>>
        multi_step ==
            IF Contains(prompt_lower, <<"t", "h", "e", "n">>)
               \/ Contains(prompt, <<",">>)
            THEN <<"Multi-step learning approach">>
            ELSE <<>>
    IN  learning \o specific \o interactive \o reflective \o multi_step

\* min(dimensions, key=dimensions.get): the first of the three names, in the
\* order of the dict, that has the least score
Weakest(score) ==
    IF score.learning_orientation <= score.specificity
       /\ score.learning_orientation <= score.engagement
    THEN "learning_orientation"
    ELSE IF score.specificity <= score.engagement THEN "specificity"
    ELSE "engagement"

_generate_improvements(prompt, score) ==
    LET weakest == Weakest(score)
        weakest_score == score[weakest]
        learning ==
            IF weakest = "learning_orientation" /\ weakest_score < F(60)
            THEN <<"Rephrase to focus on learning: Use 'explain', 'teach me', or 'help me understand' instead of 'write', 'do', or 'give me'">>
            ELSE <<>>
        specificity ==
            IF weakest = "specificity" /\ weakest_score < F(60)
            THEN <<"Add more specific details: Include what topic, what aspect, or what context you're interested in">>
                 \o (IF Len(strip(prompt, Whitespace)) < 20
                     THEN <<"Expand your prompt: Provide more context and detail about what you want to learn">>
                     ELSE <<>>)
            ELSE <<>>
        engagement ==
            IF weakest = "engagement" /\ weakest_score < F(60)
            THEN <<"Request interactive learning: Ask for quizzes, examples, or practice problems",
                   "Use multi-step prompts: For example, 'Explain X, then quiz me, then give me practice problems'">>
            ELSE <<>>
        do_it ==
            IF score.intent = DO_IT_FOR_ME
            THEN <<"Shift from 'do it for me' to 'teach me how': Instead of asking AI to complete your work, ask it to guide you through the process">>
            ELSE <<>>
        all_low ==
            IF /\ score.learning_orientation < F(50)
               /\ score.specificity < F(50)
               /\ score.engagement < F(50)
            THEN <<"Example of a strong prompt: 'Explain how Python decorators work, provide examples, then quiz me to check my understanding'">>
            ELSE <<>>
    IN  IF score.total_score >= F(70) THEN <<>>
        ELSE learning \o specificity \o engagement \o do_it \o all_low

_generate_examples(prompt, score) ==
    LET do_it ==
            IF score.intent = DO_IT_FOR_ME
            THEN <<"Instead of 'Write my essay about climate change', try: 'Explain the key arguments about climate change, then help me organize my thoughts'",
                   "Instead of 'Do my homework', try: 'Teach me the concepts I need, then quiz me to verify my understanding'">>
            ELSE <<>>
        specificity ==
            IF score.specificity < F(50)
            THEN <<"Instead of 'Help me with Python', try: 'Explain how Python list comprehensions work with examples'",
                   "Instead of 'Explain stuff', try: 'Explain the difference between stacks and queues, focusing on use cases'">>
            ELSE <<>>
        engagement ==
            IF score.engagement < F(50)
            THEN <<"Try adding: '...then quiz me to test my understanding'",
                   "Try adding: '...provide practice problems I can work through'">>
            ELSE <<>>
        examples == do_it \o specificity \o engagement
    IN  IF score.total_score >= F(70) THEN <<>>
        ELSE IF examples = <<>>
        THEN <<"'Explain how recursion works in Python, provide examples with base cases, then give me practice problems to solve'">>
        ELSE examples

PromptAnalysis(prompt, score, strengths, improvements, examples, detected_patterns) ==
    [prompt |-> prompt,
     score |-> score,
     strengths |-> strengths,
     improvements |-> improvements,
     examples |-> examples,
     detected_patterns |-> detected_patterns]

\* PromptAnalyzer.evaluate: the PromptAnalysis, or the exception the scorer
\* raised
evaluate(self, prompt) ==
    LET scored == scorer_calculate_score(self.scorer, prompt)
        score == scored.value
    IN  IF scored.exc # NoError
        THEN [exc |-> scored.exc, value |-> None]
        ELSE [exc |-> NoError,
              value |-> PromptAnalysis(prompt, score,
                            _identify_strengths(prompt, score),
                            _generate_improvements(prompt, score),
                            _generate_examples(prompt, score),
                            _detect_anti_patterns(prompt, score))]

(***************************************************************************)
(* A caller builds a PromptAnalyzer around a scorer and evaluates one      *)
(* prompt: RubricScorer() with the default weights, or a scorer of the     *)
(* caller's own that returns one fixed PromptScore.                        *)
(***************************************************************************)
\* "Explain Python lists, then quiz me"
ExplainListsThenQuiz ==
    <<"E", "x", "p", "l", "a", "i", "n", " ", "P", "y", "t", "h", "o", "n",
      " ", "l", "i", "s", "t", "s", ",", " ", "t", "h", "e", "n", " ", "q",
      "u", "i", "z", " ", "m", "e">>
\* "   give me the entire code   "
EntireCode ==
    <<" ", " ", " ", "g", "i", "v", "e", " ", "m", "e", " ", "t", "h", "e",
      " ", "e", "n", "t", "i", "r", "e", " ", "c", "o", "d", "e", " ", " ",
      " ">>

AnalyzerInputs == CoachPrompts \cup {ExplainListsThenQuiz, EntireCode}

\* The totals a caller's own scorer returns, with all three dimensions at
\* the same value
FixedTotals == {F(100), F(70), 69900, F(60), 59900, F(40)}

Scorers ==
    {RubricScorer__init__(None)} \cup
    {[returns |-> PromptScore(t, t, t, t, intent)] :
        t \in FixedTotals, intent \in {HELP_ME_LEARN, DO_IT_FOR_ME}}

InitPromptAnalyzer ==
    /\ session = __init__.session
    /\ heap = __init__.heap
    /\ ret = Called("__init__", NoError)
    /\ result = None
    /\ st = <<>>
    /\ probe \in [scorer : Scorers,
                  prompt : AnalyzerInputs,
                  analyzer : {None},
                  out : {None}]

NewPromptAnalyzer ==
    /\ probe.analyzer = None
    /\ probe' = [probe EXCEPT !.analyzer = PromptAnalyzer__init__(probe.scorer)]
    /\ UNCHANGED <<session, heap, ret, result, st>>

Evaluate ==
    /\ probe.analyzer # None
    /\ probe.out = None
    /\ probe' = [probe EXCEPT !.out = evaluate(probe.analyzer, probe.prompt)]
    /\ UNCHANGED <<session, heap, ret, result, st>>

NextPromptAnalyzer ==
    \/ NewPromptAnalyzer
    \/ Evaluate

SpecPromptAnalyzer == InitPromptAnalyzer /\ [][NextPromptAnalyzer]_vars

(***************************************************************************)
(* LessonManager (services/lesson_manager) and the lessons page of the     *)
(* coach (app.py render_lessons).  _lessons is a dict: its items in        *)
(* insertion order.  Of a Lesson its id and its difficulty are kept, of a   *)
(* UserProgress its completed_lessons and its skill_level.                 *)
(***************************************************************************)
MaxLessons == 3

\* LessonManager.__init__
LessonManager__init__ == [_lessons |-> <<>>]

Lesson(id, difficulty) == [id |-> id, difficulty |-> difficulty]

\* self._lessons[lesson.id] = lesson: a known id keeps its place
add_lesson(self, lesson) ==
    IF \E k \in DOMAIN self._lessons : self._lessons[k].id = lesson.id
    THEN [self EXCEPT !._lessons =
              [k \in DOMAIN self._lessons |->
                  IF self._lessons[k].id = lesson.id THEN lesson
                  ELSE self._lessons[k]]]
    ELSE [self EXCEPT !._lessons = Append(self._lessons, lesson)]

RECURSIVE AddAll(_, _)
AddAll(self, lessons) ==
    IF lessons = <<>> THEN self
    ELSE AddAll(add_lesson(self, Head(lessons)), Tail(lessons))

load_default_lessons(self) ==
    AddAll(self, <<Lesson("basics_001", 1), Lesson("specificity_001", 1),
                   Lesson("interactive_001", 2), Lesson("socratic_001", 3),
                   Lesson("advanced_001", 4)>>)

get_lessons_by_level(self, difficulty) ==
    SelectSeq(self._lessons, LAMBDA lesson : lesson.difficulty = difficulty)

get_all_lessons(self) == self._lessons

get_next_lesson(self, progress) ==
    LET target_difficulty == progress.skill_level
        available_lessons ==
            SelectSeq(get_lessons_by_level(self, target_difficulty),
                LAMBDA lesson :
                    lesson.id \notin Range(progress.completed_lessons))
        next_available ==
            SelectSeq(get_lessons_by_level(self, target_difficulty + 1),
                LAMBDA lesson :
                    lesson.id \notin Range(progress.completed_lessons))
    IN  IF available_lessons # <<>> THEN available_lessons[1]
        ELSE IF target_difficulty < 5 /\ next_available # <<>>
        THEN next_available[1]
        ELSE None

\* The lessons a caller adds by hand
LessonChoices == {Lesson(id, d) : id \in {"l1", "l2", "l3"}, d \in {1, 3}}

\* probe.manager   the LessonManager
\* probe.progress  st.session_state.progress
\* probe.page      what the lessons page shows: None before it is rendered,
\*                 else the recommended lesson (None for no recommendation)
InitLessons ==
    /\ session = __init__.session
    /\ heap = __init__.heap
    /\ ret = Called("__init__", NoError)
    /\ result = None
    /\ st = <<>>
    /\ probe = [manager |-> LessonManager__init__,
                progress |-> [completed_lessons |-> <<>>, skill_level |-> 1],
                page |-> None]

\* The catalog is filled before the page is first rendered
LoadDefaultLessons ==
    /\ probe.manager._lessons = <<>>
    /\ probe.page = None
    /\ probe' = [probe EXCEPT !.manager = load_default_lessons(probe.manager)]
    /\ UNCHANGED <<session, heap, ret, result, st>>

AddLesson(lesson) ==
    /\ probe.page = None
    /\ probe.progress.completed_lessons = <<>>
    /\ Len(probe.manager._lessons) < MaxLessons
    /\ \A k \in DOMAIN probe.manager._lessons :
           probe.manager._lessons[k].id \in {"l1", "l2", "l3"}
    /\ probe' = [probe EXCEPT !.manager = add_lesson(probe.manager, lesson)]
    /\ UNCHANGED <<session, heap, ret, result, st>>

\* render_lessons up to the recommendation
RenderLessons ==
    /\ probe.page = None
    /\ probe.manager._lessons # <<>>
    /\ probe' = [probe EXCEPT
                     !.page = [next_lesson |->
                                   get_next_lesson(probe.manager,
                                                   probe.progress)]]
    /\ UNCHANGED <<session, heap, ret, result, st>>

\* The button "Mark ... as Complete" of a lesson that is not completed; the
\* page is run again (st.rerun)
MarkComplete(k) ==
    /\ probe.page # None
    /\ k \in DOMAIN get_all_lessons(probe.manager)
    /\ get_all_lessons(probe.manager)[k].id
           \notin Range(probe.progress.completed_lessons)
    /\ \E completed \in {Append(probe.progress.completed_lessons,
                                get_all_lessons(probe.manager)[k].id)} :
           probe' = [probe EXCEPT
                         !.progress =
                             [completed_lessons |-> completed,
                              skill_level |->
                                  Min(5, 1 + (Len(completed) \div 2))],
                         !.page = None]
    /\ UNCHANGED <<session, heap, ret, result, st>>

NextLessons ==
    \/ LoadDefaultLessons
    \/ \E lesson \in LessonChoices : AddLesson(lesson)
    \/ RenderLessons
    \/ \E k \in 1..5 : MarkComplete(k)

SpecLessons == InitLessons /\ [][NextLessons]_vars

(***************************************************************************)
(* Properties                                                              *)
(***************************************************************************)
\* The session's attempt list in the current state (empty without a session)
Attempts == IF session = None THEN <<>> ELSE heap[session.attempts]

AngryStates == {ANGRY, ENRAGED, BROKEN}

\* C1: every successful process_prompt extends the session's attempt list by
\* exactly one record at the end and leaves the earlier records as they were;
\* the record added by the k-th call has attempt_number k, and afterwards the
\* session's current emotional state is that of the newest record.
C1_AppendsOneAttempt ==
    [][(ret'.op = "process_prompt" /\ ret'.exc = NoError) =>
          LET before == heap[session.attempts]
              after == heap'[session'.attempts]
          IN  /\ session # None
              /\ session'.attempts = session.attempts
              /\ Len(after) = Len(before) + 1
              /\ SubSeq(after, 1, Len(before)) = before
              /\ \A k \in DOMAIN after : after[k].attempt_number = k
              /\ session'.current_emotional_state
                     = after[Len(after)].emotional_state]_vars

\* C1 witness: the third prompt of a session has just been processed
C1_Witness ==
    /\ ret.op = "process_prompt"
    /\ ret.exc = NoError
    /\ Len(Attempts) = 3

\* C2: should_offer_rage_quit is true exactly when a session exists, has at
\* least 5 attempts, and is ANGRY, ENRAGED or BROKEN or has 15 attempts or more.
C2_OfferExactly ==
    should_offer_rage_quit(World) <=>
        /\ session # None
        /\ Len(Attempts) >= 5
        /\ \/ session.current_emotional_state \in AngryStates
           \/ Len(Attempts) >= 15

\* C2 witness: a calm session is offered the quit at its 15th attempt
C2_Witness ==
    /\ session # None
    /\ Len(Attempts) = 15
    /\ session.current_emotional_state \notin AngryStates
    /\ should_offer_rage_quit(World)

\* C3: once some attempt of the session was classified ANGRY or worse and the
\* session has at least 5 attempts, should_offer_rage_quit returns true.
C3_OfferedOnceAngry ==
    (/\ session # None
     /\ Len(Attempts) >= 5
     /\ \E i \in DOMAIN Attempts :
            state_intensity[Attempts[i].emotional_state]
                >= state_intensity[ANGRY])
        => should_offer_rage_quit(World)

\* C4: generate_rage_quit_result raises RuntimeError exactly when there is no
\* session or the session has no attempts; with at least one attempt it raises
\* nothing and returns a result whose total_attempts is the number of attempts
\* and whose final_emotional_state is the session's current state.
C4_ResultForEverySession ==
    ret.op = "generate_rage_quit_result" =>
        /\ ret.exc = "RuntimeError" <=> (session = None \/ Attempts = <<>>)
        /\ (session # None /\ Attempts # <<>>) =>
               /\ ret.exc = NoError
               /\ result # None
               /\ result.frustration_score.total_attempts = Len(Attempts)
               /\ result.final_emotional_state
                      = session.current_emotional_state

\* C9: reset_session leaves the manager without a session; start_session,
\* also over an active session, yields a session with no attempts, state
\* OPTIMISTIC and the given user id; and every session is what a new manager
\* makes of the session's own prompts (first attempt number 1, no trace of an
\* earlier session in its analysis), which a later score leaves as it is.
C9_FreshSession ==
    /\ [][/\ ret'.op = "reset_session" => session' = None
          /\ ret'.op = "generate_rage_quit_result" =>
                 (session' = session /\ Attempts' = Attempts)
          /\ \A user_id \in UserIds :
                 StartSession(user_id) =>
                     /\ session' # None
                     /\ session'.user_id = user_id
                     /\ heap'[session'.attempts] = <<>>
                     /\ session'.current_emotional_state = OPTIMISTIC]_vars
    /\ []((session # None /\ ret.op # "generate_rage_quit_result") =>
              \A fresh \in {Replay(session.user_id, PromptsOf(Attempts))} :
                  /\ Attempts = AttemptsOf(fresh)
                  /\ session.current_emotional_state
                         = fresh.session.current_emotional_state
                  /\ \A k \in DOMAIN Attempts : Attempts[k].attempt_number = k)

\* C9 witness: a session has just been started under another user id while a
\* session was active
C9_WitnessRestart ==
    /\ ret.op = "start_session"
    /\ ret.active
    /\ session.user_id = "user1"
    /\ Attempts = <<>>

\* C10: politeness_decay is 0 without attempts, otherwise the first attempt's
\* politeness score minus the latest one's, and it is >= 0 when no attempt is
\* politer than the one before it.
C10_PolitenessDecay ==
    session # None =>
        LET a == Attempts
        IN  /\ a = <<>> => politeness_decay(a) = 0
            /\ a # <<>> =>
                   politeness_decay(a)
                       = a[1].politeness_score - a[Len(a)].politeness_score
            /\ (\A i \in 2..Len(a) :
                    a[i].politeness_score <= a[i - 1].politeness_score)
                   => politeness_decay(a) >= 0

\* C10 witness: three attempts, each less polite than the one before
C10_Witness ==
    /\ session # None
    /\ Len(Attempts) = 3
    /\ \A i \in 2..3 :
           Attempts[i].politeness_score < Attempts[i - 1].politeness_score
    /\ politeness_decay(Attempts) > 0

\* The calls of analyze_prompt that have returned
Returned == IF probe = None THEN {} ELSE {c \in Calls : probe[c].out # None}

\* The rules of the cascade for the tuple out returned after n previous
\* attempts, in the order of their priority: <<condition, state>>
Cascade(out, n) ==
    LET indicators == Range(out.rage_indicators)
        profanity == out.profanity_count
        caps == out.caps_percentage
    IN  << <<n > 50 /\ profanity = 0 /\ caps < F(30), TRANSCENDENT>>,
           <<DEFEATED \in indicators, BROKEN>>,
           <<profanity >= 2 \/ caps > F(70), ENRAGED>>,
           <<profanity > 0 \/ caps > F(50) \/ DEMANDING \in indicators, ANGRY>>,
           <<PLEADING \in indicators \/ n >= 5, FRUSTRATED>>,
           <<n >= 2, CONFUSED>>,
           <<TRUE, OPTIMISTIC>> >>

\* C5: the emotional state analyze_prompt returns is the state of the first
\* rule of the cascade (TRANSCENDENT, BROKEN, ENRAGED, ANGRY, FRUSTRATED,
\* CONFUSED, OPTIMISTIC) whose condition holds for the returned indicators,
\* profanity count and caps percentage and the number of previous attempts.
C5_PriorityCascade ==
    \A c \in Returned :
        LET rules == Cascade(probe[c].out, Len(probe[c].previous_attempts))
            first == CHOOSE i \in DOMAIN rules :
                         /\ rules[i][1]
                         /\ \A j \in 1..(i - 1) : ~rules[j][1]
        IN  probe[c].out.emotional_state = rules[first][2]

\* C5 witness: a prompt after exactly 5 previous attempts that meets no rule
\* above FRUSTRATED, and next to it a defeated prompt with two profanities,
\* which meets the BROKEN rule and the ENRAGED rule
C5_Witness ==
    /\ Returned = Calls
    /\ Len(probe[1].previous_attempts) = 5
    /\ probe[1].out.emotional_state = FRUSTRATED
    /\ PLEADING \notin Range(probe[1].out.rage_indicators)
    /\ probe[2].out.emotional_state = BROKEN
    /\ probe[2].out.profanity_count >= 2

\* The indicators that are not derived from the profanity count or the caps
\* percentage
WordIndicators(out) ==
    Range(out.rage_indicators) \cap {POLITE, DEMANDING, PLEADING, DEFEATED}

\* Call d has at least the profanity count and the caps percentage of call c,
\* the same history and otherwise the same indicators
Raised(c, d) ==
    /\ probe[c].previous_attempts = probe[d].previous_attempts
    /\ WordIndicators(probe[c].out) = WordIndicators(probe[d].out)
    /\ probe[c].out.profanity_count <= probe[d].out.profanity_count
    /\ probe[c].out.caps_percentage <= probe[d].out.caps_percentage

NoLessSevere(c, d) ==
    state_intensity[probe[c].out.emotional_state]
        <= state_intensity[probe[d].out.emotional_state]

\* C6 as stated: for every history length, raising the profanity count or the
\* caps percentage, the history held fixed, never yields a less severe state.
C6_NonDecreasing ==
    \A c, d \in Returned : Raised(c, d) => NoLessSevere(c, d)

\* C6 amended: with at most 50 previous attempts, raising the profanity count
\* or the caps percentage, the history and the other indicators held fixed,
\* never yields a less severe state.
C6_NonDecreasingUpTo50 ==
    \A c, d \in Returned :
        (Raised(c, d) /\ Len(probe[c].previous_attempts) <= 50)
            => NoLessSevere(c, d)

\* C6 witness: after 50 previous attempts the second prompt has more
\* profanity than the first and gets a more severe state
C6_Witness ==
    /\ Returned = Calls
    /\ Raised(1, 2)
    /\ Len(probe[1].previous_attempts) = 50
    /\ probe[1].out.profanity_count < probe[2].out.profanity_count
    /\ state_intensity[probe[1].out.emotional_state]
           < state_intensity[probe[2].out.emotional_state]

\* C7: two calls with the same prompt and the same number of previous
\* attempts return the same state, indicators, politeness score, profanity
\* count and caps percentage, whatever the previous attempts were.
C7_IndependentOfEarlierStates ==
    \A c, d \in Returned :
        (/\ probe[c].prompt = probe[d].prompt
         /\ Len(probe[c].previous_attempts) = Len(probe[d].previous_attempts))
            => probe[c].out = probe[d].out

\* C7 witness: the same prompt was analyzed after five attempts of which the
\* last was CONFUSED and after five of which the last was BROKEN
C7_Witness ==
    /\ Returned = Calls
    /\ probe[1].prompt = probe[2].prompt
    /\ Len(probe[1].previous_attempts) = 5
    /\ Len(probe[2].previous_attempts) = 5
    /\ probe[1].previous_attempts[5].emotional_state = CONFUSED
    /\ probe[2].previous_attempts[5].emotional_state = BROKEN

\* C8: what UI session u does to the manager (start a session, process a
\* prompt) never changes the attempt list, the user id or the emotional
\* state that another UI session with a started chat sees.
C8_NoSharedState ==
    [][\A u \in UISessions :
          (AppStart(u) \/ \E user_prompt \in AppPrompts : AppSend(u, user_prompt))
              => \A v \in UISessions \ {u} :
                     st[v].session_started =>
                         /\ Attempts' = Attempts
                         /\ session'.user_id = session.user_id
                         /\ session'.current_emotional_state
                                = session.current_emotional_state]_vars

\* C11: after any sequence of process_prompt calls the session's politeness
\* decay, as the property gives it and as get_session_summary reports it, lies
\* between 0 and 100.
C11_DecayInRange ==
    session # None =>
        /\ politeness_decay(Attempts) >= F(0)
        /\ politeness_decay(Attempts) <= F(100)
        /\ get_session_summary(World).politeness_decay >= F(0)
        /\ get_session_summary(World).politeness_decay <= F(100)

\* C12: a result generated for a session of at least 50 attempts is produced
\* without an exception, its score is legendary, and its persistence rating
\* is "Rage Connoisseur" for 50 to 59 attempts and "Transcendent Sufferer"
\* for 60 or more, whatever the prompts were.
C12_LegendaryFrom50 ==
    (/\ ret.op = "generate_rage_quit_result"
     /\ session # None
     /\ Len(Attempts) >= 50)
        => /\ ret.exc = NoError
           /\ result # None
           /\ result.frustration_score.total_attempts = Len(Attempts)
           /\ is_legendary(result.frustration_score)
           /\ persistence_rating(result.frustration_score)
                  = IF Len(Attempts) <= 59 THEN "Rage Connoisseur"
                    ELSE "Transcendent Sufferer"

\* C12 witness: a result for exactly 50 attempts, taken at once (no elapsed
\* time) in a session without any profanity, so that only the attempt count
\* makes it legendary
C12_Witness ==
    /\ ret.op = "generate_rage_quit_result"
    /\ ret.exc = NoError
    /\ result # None
    /\ Len(Attempts) = 50
    /\ result.frustration_score.time_elapsed_seconds = 0
    /\ result.frustration_score.profanity_creativity = 0
    /\ persistence_rating(result.frustration_score) = "Rage Connoisseur"

\* C13: process_prompt called without a session (never started, or after
\* reset_session) raises RuntimeError and changes nothing: the manager still
\* has no session and no attempt list exists that did not exist before.
C13_NoSessionNoEffect ==
    [][(ret'.op = "process_prompt" /\ session = None) =>
          /\ ret'.exc = "RuntimeError"
          /\ session' = None
          /\ heap' = heap
          /\ result' = result]_vars

\* C13 witness: process_prompt has just raised RuntimeError on a manager
\* without a session
C13_Witness ==
    /\ ret.op = "process_prompt"
    /\ ret.exc = "RuntimeError"
    /\ ~ret.active
    /\ session = None

\* The fields of the constructor call in probe that are outside [0,100]
OutOfRange ==
    {k \in DOMAIN ScoreNames :
        probe[ScoreNames[k]] < F(0) \/ probe[ScoreNames[k]] > F(100)}

\* C14: a PromptScore exists only with its four scores in [0,100]:
\* the constructor returns the object exactly when all four are in range, and
\* otherwise raises a ValueError that names a field that is out of range.
C14_ScoresInRange ==
    probe.out # None =>
        /\ probe.out.exc = NoError <=> OutOfRange = {}
        /\ probe.out.exc = NoError =>
               /\ probe.out.value # None
               /\ \A k \in DOMAIN ScoreNames :
                      /\ probe.out.value[ScoreNames[k]] = probe[ScoreNames[k]]
                      /\ probe.out.value[ScoreNames[k]] \in F(0)..F(100)
        /\ probe.out.exc # NoError =>
               /\ probe.out.exc = "ValueError"
               /\ probe.out.value = None
               /\ \E k \in OutOfRange : probe.out.field = ScoreNames[k]

\* C14 witness: the construction was refused for an engagement just above
\* 100 with the other three scores in range
C14_Witness ==
    /\ probe.out # None
    /\ probe.engagement = 100001
    /\ probe.total_score = F(100)
    /\ probe.learning_orientation = F(0)
    /\ probe.specificity = F(60)
    /\ probe.out.exc = "ValueError"
    /\ probe.out.field = "engagement"

\* C17: is_passing is true if and only if total_score >= 60, so a total of
\* exactly 60.0 passes and 59.999 does not.
C17_PassingFrom60 ==
    (probe.out # None /\ probe.out.exc = NoError) =>
        /\ is_passing(probe.out.value) <=> probe.out.value.total_score >= F(60)
        /\ probe.out.value.total_score = F(60) => is_passing(probe.out.value)
        /\ probe.out.value.total_score \in {0, 59999}
               => ~is_passing(probe.out.value)

\* C17 witness: a score with a total of exactly 60.0, which passes
C17_Witness ==
    /\ probe.out # None
    /\ probe.out.exc = NoError
    /\ probe.out.value.total_score = F(60)
    /\ is_passing(probe.out.value)

\* C15: calculate_score has no error conditions: for every prompt and every
\* accepted ScoreWeights it returns a PromptScore whose sub-scores and total
\* lie in [0,100].
C15_NoErrorConditions ==
    probe.out # None =>
        /\ probe.out.exc = NoError
        /\ probe.out.value # None
        /\ \A k \in DOMAIN ScoreNames :
               probe.out.value[ScoreNames[k]] \in F(0)..F(100)

\* The keyword lists in the order of their priority: <<list, intent>>
IntentRules ==
    << <<do_it_patterns, DO_IT_FOR_ME>>,
       <<learning_patterns, HELP_ME_LEARN>>,
       <<clarifying_patterns, CLARIFYING>>,
       <<reflection_patterns, REFLECTION>> >>

\* The rules with a keyword that occurs in the lower-cased text s
Matching(s) ==
    {i \in DOMAIN IntentRules : AnyIn(IntentRules[i][1], lower(s))}

\* C16: the intent of a returned score is that of the first keyword list, in
\* the order do-it-for-me, help-me-learn, clarifying, reflection, with a
\* keyword in the lower-cased prompt, and UNKNOWN when no list has one.
C16_IntentPriority ==
    (probe.out # None /\ probe.out.exc = NoError) =>
        \A m \in {Matching(probe.prompt)} :
            probe.out.value.intent =
                IF m = {} THEN UNKNOWN
                ELSE IntentRules[CHOOSE i \in m : \A j \in m : i <= j][2]

\* C16 witness: a prompt with a do-it-for-me keyword and a help-me-learn
\* keyword was classified DO_IT_FOR_ME
C16_Witness ==
    /\ probe.out # None
    /\ probe.out.exc = NoError
    /\ {1, 2} \subseteq Matching(probe.prompt)
    /\ probe.out.value.intent = DO_IT_FOR_ME

\* The client of the demonstrator in probe raises at a chat call it receives
ChatRaises ==
    /\ probe.ai_client # None
    /\ \/ probe.ai_client.replies[1].exc # NoError
       \/ probe.ai_client.replies[2].exc # NoError

\* C18: demonstrate never raises: without a client, or when a chat call
\* raises, it returns a complete result with is_simulated = TRUE and canned
\* responses; when both chat calls return, it returns is_simulated = FALSE
\* with the first reply as bad_response and the second as good_response.
C18_FallsBackToSimulated ==
    probe.out # None =>
        /\ probe.out.exc = NoError
        /\ probe.out.value # None
        /\ probe.out.value.original_prompt = probe.original_prompt
        /\ probe.out.value.improved_prompt # None
        /\ probe.out.value.explanation # None
        /\ (probe.ai_client = None \/ ChatRaises) =>
               /\ probe.out.value.is_simulated
               /\ probe.out.value.bad_response
                      \in Range(SIMULATED_BAD_RESPONSES)
               /\ probe.out.value.good_response
                      \in Range(SIMULATED_GOOD_RESPONSES)
        /\ (probe.ai_client # None /\ ~ChatRaises) =>
               /\ ~probe.out.value.is_simulated
               /\ probe.out.value.bad_response
                      = probe.ai_client.replies[1].value
               /\ probe.out.value.good_response
                      = probe.ai_client.replies[2].value

\* C18 witness: the first chat call returned a text, the second raised, and
\* the result is simulated
C18_Witness ==
    /\ probe.out # None
    /\ probe.ai_client # None
    /\ probe.ai_client.replies[1].exc = NoError
    /\ probe.ai_client.replies[2].exc = "RuntimeError"
    /\ probe.out.exc = NoError
    /\ probe.out.value.is_simulated

\* C19: the caps percentage analyze_prompt returns is 100 * uppercase letters
\* / alphabetic characters of the prompt (to the thousandth the model keeps),
\* 0 for a prompt without letters, and always within 0..100; "HELLO world"
\* gives exactly 50.
C19_CapsOverLettersOnly ==
    \A c \in Returned :
        LET prompt == probe[c].prompt
            alphabetic == Count(prompt, isalpha)
            uppercase == Count(prompt, isupper)
            pct == probe[c].out.caps_percentage
        IN  /\ F(0) <= pct /\ pct <= F(100)
            /\ alphabetic = 0 => pct = F(0)
            /\ alphabetic > 0 =>
                   /\ pct * alphabetic <= F(100) * uppercase
                   /\ F(100) * uppercase < (pct + 1) * alphabetic
            /\ prompt = HelloWorld => pct = F(50)

\* C19 witness: "HELLO world" was analyzed and gave 50, and "123" gave 0
C19_Witness ==
    /\ Returned = Calls
    /\ probe[1].prompt = HelloWorld
    /\ probe[1].out.caps_percentage = F(50)
    /\ probe[2].prompt = Digits123
    /\ probe[2].out.caps_percentage = F(0)

\* C20: of two calls with the same words and the same previous attempts, one
\* shouted (caps percentage above 50) and one not, the shouted one returns a
\* politeness score 30 points lower, where neither score is clamped.
C20_ShoutingDeducts30 ==
    \A c, d \in Returned :
        (/\ lower(probe[c].prompt) = lower(probe[d].prompt)
         /\ probe[c].previous_attempts = probe[d].previous_attempts
         /\ probe[c].out.caps_percentage > F(50)
         /\ probe[d].out.caps_percentage <= F(50)
         /\ F(30) <= probe[d].out.politeness_score
         /\ probe[d].out.politeness_score < F(100))
            => probe[c].out.politeness_score
                   = probe[d].out.politeness_score - F(30)

\* C21: the politeness score stored on every attempt lies in 0..100, and of
\* two attempts of a session with the same prompt text the later one never
\* has the higher score; where neither of the two is at the floor or the
\* ceiling, the later one is lower by 5 points for each attempt in between.
C21_PolitenessDecays ==
    \A j \in DOMAIN Attempts :
        /\ F(0) <= Attempts[j].politeness_score
        /\ Attempts[j].politeness_score <= F(100)
        /\ \A i \in 1..(j - 1) :
               Attempts[i].prompt = Attempts[j].prompt =>
                   /\ Attempts[j].politeness_score
                          <= Attempts[i].politeness_score
                   /\ (/\ Attempts[j].politeness_score > F(0)
                       /\ Attempts[i].politeness_score < F(100))
                          => Attempts[i].politeness_score
                                 - Attempts[j].politeness_score
                                     = (j - i) * F(5)

\* C21 witness: one prompt text was sent as the second and as the 40th
\* attempt; the second scored 95 and the 40th is at the floor
C21_Witness ==
    /\ Len(Attempts) >= 40
    /\ Attempts[2].prompt = Attempts[40].prompt
    /\ Attempts[2].politeness_score = F(95)
    /\ Attempts[40].politeness_score = F(0)

\* min(100, philosophical_score + min(20, 0.5 x total_attempts) + (10 if the
\* final state is ENRAGED, BROKEN or TRANSCENDENT) + min(15, 1.5 x
\* profanity_creativity)) of a result, with every min written out by cases
ExpectedMetric(r) ==
    LET persistence == IF r.frustration_score.total_attempts >= 40 THEN F(20)
                       ELSE r.frustration_score.total_attempts * 500
        emotional == IF r.final_emotional_state = ENRAGED THEN F(10)
                     ELSE IF r.final_emotional_state = BROKEN THEN F(10)
                     ELSE IF r.final_emotional_state = TRANSCENDENT THEN F(10)
                     ELSE F(0)
        creativity == IF r.frustration_score.profanity_creativity >= 10
                      THEN F(15)
                      ELSE r.frustration_score.profanity_creativity * 1500
        sum == r.frustration_score.philosophical_score + persistence
                   + emotional + creativity
    IN  IF sum >= F(100) THEN F(100) ELSE sum

\* C22: the entertaining metric of every result, produced by the manager or
\* constructed directly, is the capped sum of the philosophical score and the
\* three bonuses; for a result the manager produced it is above 0 and at
\* most 100.
C22_EntertainingMetric ==
    /\ result # None =>
           /\ entertaining_metric(result) = ExpectedMetric(result)
           /\ entertaining_metric(result) > F(0)
           /\ entertaining_metric(result) <= F(100)
    /\ probe # None =>
           /\ probe.out = ExpectedMetric(probe.result)
           /\ probe.out <= F(100)

\* C22 witness: the manager produced a result for 40 attempts or more, whose
\* sum is over 100 and whose metric is the cap
C22_Witness ==
    /\ result # None
    /\ result.frustration_score.total_attempts >= 40
    /\ result.frustration_score.philosophical_score = F(100)
    /\ entertaining_metric(result) = F(100)

\* C22 witness: a result constructed with 20 distinct curse words gets the
\* creativity bonus of 15 and no more
C22_WitnessCreativityCap ==
    /\ probe # None
    /\ probe.result.frustration_score.profanity_creativity = 20
    /\ probe.result.frustration_score.total_attempts = 0
    /\ probe.result.frustration_score.philosophical_score = F(0)
    /\ probe.result.final_emotional_state = FRUSTRATED
    /\ probe.out = F(15)

\* The replies of each response family, for the attempt numbers of the model
ResponseFamily ==
    [forbidden |-> {_do_what_they_said_not_to(a) : a \in 1..MaxResponseAttempt},
     misdirection |->
         {_topic_misdirection_response(TOPIC_MISDIRECTIONS[k], a) :
              k \in DOMAIN TOPIC_MISDIRECTIONS, a \in 1..MaxResponseAttempt},
     vague |-> {_unhelpful_explanation(a) : a \in 1..MaxResponseAttempt},
     how_not_to |-> {_opposite_how_to(a) : a \in 1..MaxResponseAttempt},
     code_refusal |-> {_wrong_code_response(a) : a \in 1..MaxResponseAttempt},
     generic |-> {_generic_unhelpful(a) : a \in 1..MaxResponseAttempt}]

\* The text s has one of the words as a substring
HasAny(s, words) == \E w \in words : Contains(lower(s), w)

Topics == {TOPIC_MISDIRECTIONS[k].topic : k \in DOMAIN TOPIC_MISDIRECTIONS}

\* The family the fixed order of checks gives a prompt
FamilyOf(s) ==
    IF HasAny(s, {Keywords.dont, Keywords.not}) THEN "forbidden"
    ELSE IF HasAny(s, {Keywords.explain, Keywords.what})
    THEN IF HasAny(s, Topics) THEN "misdirection" ELSE "vague"
    ELSE IF HasAny(s, {Keywords.how})
    THEN IF HasAny(s, Topics) THEN "misdirection" ELSE "how_not_to"
    ELSE IF HasAny(s, {Keywords.code, Keywords.write}) THEN "code_refusal"
    ELSE IF HasAny(s, Topics) THEN "misdirection"
    ELSE "generic"

\* C23: generate_opposite_response returns a non-empty string of the family
\* that the first matching check selects, in the order negation, "explain"
\* or "what", "how", "code" or "write", topic keyword, generic fallback; a
\* reply belongs to no other family.
C23_FirstMatchingFamily ==
    probe.out # None =>
        /\ probe.out.exc = NoError
        /\ probe.out.value \in STRING
        /\ probe.out.value # ""
        /\ \A f \in DOMAIN ResponseFamily :
               probe.out.value \in ResponseFamily[f]
                   <=> f = FamilyOf(probe.prompt)

\* C23 witness: "Write Python code" names a topic and asks for code, and on
\* the ninth attempt still gets the last code refusal
C23_Witness ==
    /\ probe.out # None
    /\ probe.prompt = WritePythonCode
    /\ probe.attempt_number = 9
    /\ probe.out.value
           = "The code is simple: just use code() to code the codes."

\* C24: an analysis whose score is passing has no improvements and no
\* examples.
C24_NothingSuggestedWhenPassing ==
    (/\ probe.out # None
     /\ probe.out.exc = NoError
     /\ is_passing(probe.out.value.score))
        => /\ probe.out.value.improvements = <<>>
           /\ probe.out.value.examples = <<>>

\* C25: whenever the lessons page was rendered, get_next_lesson returned None
\* only if every lesson of the catalog is completed, and otherwise a lesson
\* that is not completed.
C25_NoneOnlyWhenAllCompleted ==
    probe.page # None =>
        IF probe.page.next_lesson = None
        THEN \A k \in DOMAIN probe.manager._lessons :
                 probe.manager._lessons[k].id
                     \in Range(probe.progress.completed_lessons)
        ELSE probe.page.next_lesson.id
                 \notin Range(probe.progress.completed_lessons)

\* C26: the profanity_creativity of a result is 0 exactly when every attempt
\* of the session has profanity_count 0, and it never exceeds the sum of the
\* attempts' profanity_count.
C26_CreativityMatchesDetection ==
    result # None =>
        /\ result.frustration_score.profanity_creativity = 0
               <=> \A i \in DOMAIN Attempts : Attempts[i].profanity_count = 0
        /\ result.frustration_score.profanity_creativity
               <= SumSeq([i \in DOMAIN Attempts |->
                              Attempts[i].profanity_count])

\* C27: in every session the third and every later attempt is not OPTIMISTIC,
\* the sixth and every later attempt is neither OPTIMISTIC nor CONFUSED, and
\* no attempt before the 52nd is TRANSCENDENT.
C27_CalmStatesBounded ==
    \A i \in DOMAIN Attempts :
        /\ Attempts[i].attempt_number = i
        /\ i >= 3 => Attempts[i].emotional_state # OPTIMISTIC
        /\ i >= 6 => Attempts[i].emotional_state \notin {OPTIMISTIC, CONFUSED}
        /\ i < 52 => Attempts[i].emotional_state # TRANSCENDENT

\* C27 witness: a session whose second attempt is OPTIMISTIC, whose fifth is
\* CONFUSED, whose 51st is FRUSTRATED and whose 52nd is TRANSCENDENT
C27_Witness ==
    /\ Len(Attempts) >= 52
    /\ Attempts[2].emotional_state = OPTIMISTIC
    /\ Attempts[5].emotional_state = CONFUSED
    /\ Attempts[51].emotional_state = FRUSTRATED
    /\ Attempts[52].emotional_state = TRANSCENDENT

\* C28: whenever the session's current emotional state is TRANSCENDENT the
\* session has more than 15 attempts and should_offer_rage_quit returns true.
C28_TranscendentIsOffered ==
    (session # None /\ session.current_emotional_state = TRANSCENDENT)
        => /\ Len(Attempts) > 15
           /\ should_offer_rage_quit(World)

\* C28 witness: a session of 52 attempts or more whose current state is
\* TRANSCENDENT and which is offered the rage quit
C28_Witness ==
    /\ session # None
    /\ session.current_emotional_state = TRANSCENDENT
    /\ Len(Attempts) >= 52
    /\ Attempts[Len(Attempts)].emotional_state = TRANSCENDENT
    /\ should_offer_rage_quit(World)

\* C29: the two responses of a result have the same origin: is_simulated is
\* false only if both chat calls returned, and then the responses are the two
\* replies; otherwise (no client, or either call raised, the second after a
\* successful first included) both responses are simulated texts.
C29_SameOrigin ==
    (probe.out # None /\ probe.out.exc = NoError) =>
        IF probe.out.value.is_simulated
        THEN /\ probe.ai_client = None \/ ChatRaises
             /\ probe.out.value.bad_response
                    = _get_simulated_bad_response(
                          _detect_pattern(probe.original_prompt))
             /\ probe.out.value.good_response = _get_simulated_good_response
        ELSE /\ probe.ai_client # None
             /\ probe.ai_client.replies[1].exc = NoError
             /\ probe.ai_client.replies[2].exc = NoError
             /\ probe.out.value.bad_response = probe.ai_client.replies[1].value
             /\ probe.out.value.good_response
                    = probe.ai_client.replies[2].value

\* C29 witness: the first chat call returned "Minimal unhelpful response",
\* the second raised, and both responses of the result are simulated texts
C29_Witness ==
    /\ probe.out # None
    /\ probe.ai_client # None
    /\ probe.ai_client.replies[1]
           = [exc |-> NoError, value |-> "Minimal unhelpful response"]
    /\ probe.ai_client.replies[2].exc = "Exception"
    /\ probe.out.value.is_simulated
    /\ probe.out.value.bad_response \in Range(SIMULATED_BAD_RESPONSES)
    /\ probe.out.value.good_response \in Range(SIMULATED_GOOD_RESPONSES)

\* C30: the interaction history of the result a caller holds has as many
\* attempts as the result's frustration score counted, also after further
\* prompts were processed in the session.
C30_ResultIsSnapshot ==
    result # None =>
        Len(heap[result.interaction_history])
            = result.frustration_score.total_attempts

====
